---- MODULE Spec2Model ----
(***************************************************************************)
(* XMP-editor: the binary metadata codec of src/lib (jpeg.ts, png.ts,      *)
(* webp.ts).  Buffers are sequences of bytes (0..255), indexed from 0 as   *)
(* in the source through At/Slice; strings are sequences of code points.   *)
(***************************************************************************)
EXTENDS Integers, Sequences, FiniteSets, TLC

----------------------------------------------------------------------------
(* Typed arrays, DataView and bit operations                               *)

Min(p, q) == IF p < q THEN p ELSE q

Max(p, q) == IF p > q THEN p ELSE q

\* data[i] of a Uint8Array: undefined (-1) outside the array.
At(arr, idx) == IF idx >= 0 /\ idx < Len(arr) THEN arr[idx + 1] ELSE -1

\* Uint8Array.prototype.slice(start, end), for 0 <= start.
Slice(arr, lo, hi) ==
    IF lo >= Min(hi, Len(arr)) THEN << >> ELSE SubSeq(arr, lo + 1, Min(hi, Len(arr)))

\* Uint8Array.prototype.slice(start).
SliceFrom(arr, lo) ==
    IF lo >= Len(arr) THEN << >> ELSE SubSeq(arr, lo + 1, Len(arr))

\* DataView.getUint16(offset), big-endian.
getUint16(arr, at) == At(arr, at) * 256 + At(arr, at + 1)

\* DataView.getUint16(offset, true), little-endian.
getUint16LE(arr, at) == At(arr, at) + At(arr, at + 1) * 256

RECURSIVE BitXor(_, _)
\* a ^ b on non-negative integers.
BitXor(a, b) ==
    IF a = 0 THEN b
    ELSE IF b = 0 THEN a
    ELSE ((a + b) % 2) + 2 * BitXor(a \div 2, b \div 2)

\* An unsigned 32-bit value is a pair << high 16 bits, low 16 bits >>.
\* DataView.getUint32(offset), big-endian.
getUint32(arr, at) ==
    << At(arr, at) * 256 + At(arr, at + 1),
       At(arr, at + 2) * 256 + At(arr, at + 3) >>

\* DataView.getUint32(offset, true), little-endian.
getUint32LE(arr, at) ==
    << At(arr, at + 3) * 256 + At(arr, at + 2),
       At(arr, at + 1) * 256 + At(arr, at) >>

\* A 32-bit value as a number, used as a length or an offset.  Values of 2^30
\* and more are all past the end of every buffer here and count as 2^30.
ToNumber(u) == IF u[1] >= 16384 THEN 1073741824 ELSE u[1] * 65536 + u[2]

\* The four bytes of a 32-bit value, big-endian.
BytesOf(u) == << u[1] \div 256, u[1] % 256, u[2] \div 256, u[2] % 256 >>

\* a ^ b on bytes, tabulated.
XorByte == [a \in 0..255 |-> [b \in 0..255 |-> BitXor(a, b)]]

\* a ^ b on 16-bit values.
Xor16(a, b) ==
    XorByte[a \div 256][b \div 256] * 256 + XorByte[a % 256][b % 256]

\* a ^ b, a >>> 1 and a >>> 8 on 32-bit values.
Xor32(a, b) == << Xor16(a[1], b[1]), Xor16(a[2], b[2]) >>

Shr1(a) == << a[1] \div 2, (a[1] % 2) * 32768 + (a[2] \div 2) >>

Shr8(a) == << a[1] \div 256, (a[1] % 256) * 256 + (a[2] \div 256) >>

\* The two bytes DataView.setUint16(_, v) stores (v taken modulo 2^16).
setUint16(v) == << (v \div 256) % 256, v % 256 >>

\* The four bytes DataView.setUint32(_, v) stores, big-endian.
setUint32(v) ==
    << (v \div 16777216) % 256, (v \div 65536) % 256, (v \div 256) % 256, v % 256 >>

\* The four bytes DataView.setUint32(_, v, true) stores, little-endian.
setUint32LE(v) ==
    << v % 256, (v \div 256) % 256, (v \div 65536) % 256, (v \div 16777216) % 256 >>

\* Adds 4 whether or not the bit is already set.
OrBit2_Add(x) == (x + 4) % 256

\* x | 0x04
OrBit2(x) == IF (x \div 4) % 2 = 1 THEN x ELSE x + 4

RECURSIVE Concat(_)
\* The concatenation of a sequence of byte sequences.
Concat(ss) == IF ss = << >> THEN << >> ELSE Head(ss) \o Concat(Tail(ss))

\* arr.set(src, pos) on a Uint8Array, for pos + Len(src) <= Len(arr).
SetBytes(arr, src, pos) ==
    [i \in 1..Len(arr) |->
        IF i > pos /\ i <= pos + Len(src) THEN src[i - pos] ELSE arr[i]]

----------------------------------------------------------------------------
(* TextEncoder / TextDecoder                                               *)

\* The UTF-8 bytes TextEncoder.encode emits for one code point; an unpaired
\* surrogate (0xD800..0xDFFF) is encoded as U+FFFD.
EncodeCodePoint(cp) ==
    IF cp < 128 THEN << cp >>
    ELSE IF cp < 2048 THEN << 192 + (cp \div 64), 128 + (cp % 64) >>
    ELSE IF cp >= 55296 /\ cp <= 57343 THEN << 239, 191, 189 >>
    ELSE IF cp < 65536
        THEN << 224 + (cp \div 4096), 128 + ((cp \div 64) % 64), 128 + (cp % 64) >>
    ELSE << 240 + (cp \div 262144), 128 + ((cp \div 4096) % 64),
            128 + ((cp \div 64) % 64), 128 + (cp % 64) >>

RECURSIVE TextEncode(_)
\* new TextEncoder().encode(str)
TextEncode(str) ==
    IF str = << >> THEN << >>
    ELSE IF Len(str) = 1 THEN EncodeCodePoint(str[1])
    ELSE LET half == Len(str) \div 2
         IN TextEncode(SubSeq(str, 1, half))
                \o TextEncode(SubSeq(str, half + 1, Len(str)))

\* How many continuation bytes the byte lead announces (0: not a lead byte).
Needed(lead) ==
    IF lead >= 194 /\ lead <= 223 THEN 1
    ELSE IF lead >= 224 /\ lead <= 239 THEN 2
    ELSE IF lead >= 240 /\ lead <= 244 THEN 3
    ELSE 0

\* Whether c may follow the lead byte as the k-th continuation byte.
IsContinuation(lead, k, c) ==
    LET lower == IF k = 1 /\ lead = 224 THEN 160
                 ELSE IF k = 1 /\ lead = 240 THEN 144 ELSE 128
        upper == IF k = 1 /\ lead = 237 THEN 159
                 ELSE IF k = 1 /\ lead = 244 THEN 143 ELSE 191
    IN c >= lower /\ c <= upper

RECURSIVE Continuations(_, _, _, _)
\* The number of valid continuation bytes (at most need) after the lead byte
\* at index i, counted from the k-th.
Continuations(bytes, i, k, need) ==
    IF k > need \/ ~IsContinuation(At(bytes, i), k, At(bytes, i + k)) THEN k - 1
    ELSE Continuations(bytes, i, k + 1, need)

RECURSIVE DecodeFrom(_, _)
\* The UTF-8 decoder of TextDecoder (not fatal): an ill-formed sequence
\* becomes one U+FFFD.
DecodeFrom(bytes, i) ==
    IF i >= Len(bytes) THEN << >>
    ELSE LET b == At(bytes, i)
             need == Needed(b)
             got == Continuations(bytes, i, 1, need)
         IN IF b < 128 THEN << b >> \o DecodeFrom(bytes, i + 1)
            ELSE IF need = 0 \/ got < need
                THEN << 65533 >> \o DecodeFrom(bytes, i + 1 + got)
            ELSE IF need = 1
                THEN << (b - 192) * 64 + (At(bytes, i + 1) - 128) >>
                        \o DecodeFrom(bytes, i + 2)
            ELSE IF need = 2
                THEN << ((b - 224) * 64 + (At(bytes, i + 1) - 128)) * 64
                            + (At(bytes, i + 2) - 128) >>
                        \o DecodeFrom(bytes, i + 3)
            ELSE << (((b - 240) * 64 + (At(bytes, i + 1) - 128)) * 64
                            + (At(bytes, i + 2) - 128)) * 64
                            + (At(bytes, i + 3) - 128) >>
                        \o DecodeFrom(bytes, i + 4)

\* new TextDecoder("utf-8").decode(bytes): ignoreBOM is false, so a leading
\* byte order mark EF BB BF is dropped.
TextDecode(bytes) ==
    IF Len(bytes) >= 3 /\ bytes[1] = 239 /\ bytes[2] = 187 /\ bytes[3] = 191
    THEN DecodeFrom(bytes, 3)
    ELSE DecodeFrom(bytes, 0)

\* The value of readXmp: null, or a string.
Null == [isNull |-> TRUE, text |-> << >>]

Text(str) == [isNull |-> FALSE, text |-> str]

\* A result array that is a view of the caller's ArrayBuffer.
NewArray_OnCallerBuffer(bytes) == [of |-> "caller", bytes |-> bytes]

\* new Uint8Array(length), filled by set(): an array on an ArrayBuffer of its
\* own, with its bytes.
NewArray(bytes) == [of |-> "new", bytes |-> bytes]

\* The array arr after stores into it have made its bytes the given ones.
Stored(arr, bytes) == [arr EXCEPT !.bytes = bytes]

\* The outcome of writeXmp: a thrown Error, or the bytes of the returned
\* ArrayBuffer and whether it is a new one or the caller's.
Throw == [threw |-> TRUE, buffer |-> << >>, returned |-> "none"]

\* return result.buffer
Return(result) == [threw |-> FALSE, buffer |-> result.bytes, returned |-> result.of]

\* What a readXmp call did: the value it returned unless it threw, and the
\* highest index at which it read the buffer through data[i] or through the
\* DataView (-1: it read nothing).  slice() clamps to the array and so reads
\* nothing outside it.
Ran(value) == [value |-> value, threw |-> FALSE, highest |-> -1]

\* DataView's RangeError: "Offset is outside the bounds of the DataView".
RangeError == [value |-> Null, threw |-> TRUE, highest |-> -1]

\* data[idx] was evaluated on the way to the outcome r.
Indexed(idx, r) == [r EXCEPT !.highest = Max(@, idx)]

\* view.getUintN(at), of width bytes, was evaluated on the way to r: it
\* throws unless all its bytes lie inside the view.
Viewed(data, at, width, r) ==
    IF at + width > Len(data) THEN RangeError ELSE Indexed(at + width - 1, r)

----------------------------------------------------------------------------
(* src/lib/jpeg.ts                                                         *)

\* "http://ns.adobe.com/xap/1.0/\0"
XMP_NS_BYTES ==
    << 104, 116, 116, 112, 58, 47, 47, 110, 115, 46, 97, 100, 111, 98, 101,
       46, 99, 111, 109, 47, 120, 97, 112, 47, 49, 46, 48, 47, 0 >>

matchesBytes(data, offset, pattern) ==
    IF offset + Len(pattern) > Len(data) THEN FALSE
    ELSE \A i \in 0..(Len(pattern) - 1) : At(data, offset + i) = pattern[i + 1]

\* The highest index matchesBytes reads: its loop stops at the first byte
\* that differs (-1: the pattern does not fit and nothing is read).
matchesBytesHighest(data, offset, pattern) ==
    IF offset + Len(pattern) > Len(data) THEN -1
    ELSE LET differs == {i \in 0..(Len(pattern) - 1) :
                            At(data, offset + i) # pattern[i + 1]}
         IN IF differs = {} THEN offset + Len(pattern) - 1
            ELSE offset + (CHOOSE i \in differs : \A j \in differs : i <= j)

\* A length that still counts the two bytes of the length field.
xmpLength_WithLengthField(segmentLength) == segmentLength - Len(XMP_NS_BYTES)

\* const xmpLength = segmentLength - 2 - XMP_NS_BYTES.length
xmpLength(segmentLength) == segmentLength - 2 - Len(XMP_NS_BYTES)

\* A loop condition that only asks for the two marker bytes.
moreSegments_MarkerOnly(data, offset) == offset < Len(data) - 2

\* while (offset < data.length - 4)
moreSegments(data, offset) == offset < Len(data) - 4

RECURSIVE jpeg_readXmpLoop(_, _)
\* The while loop of readXmp, from the given offset.
jpeg_readXmpLoop(data, offset) ==
    IF ~moreSegments(data, offset) THEN Ran(Null)
    ELSE Indexed(offset,
         IF At(data, offset) # 255 THEN Ran(Null)
         ELSE Indexed(offset + 1,
              LET markerType == At(data, offset + 1)
                  segmentLength == getUint16(data, offset + 2)
                  segmentDataStart == offset + 4
                  xmpStart == segmentDataStart + Len(XMP_NS_BYTES)
              IN IF markerType = 218 THEN Ran(Null)
                 ELSE IF markerType = 255 THEN jpeg_readXmpLoop(data, offset + 1)
                 ELSE IF markerType = 208 \/ markerType = 217
                     THEN jpeg_readXmpLoop(data, offset + 2)
                 ELSE Viewed(data, offset + 2, 2,
                      IF markerType = 225 /\ segmentLength >= Len(XMP_NS_BYTES) + 2
                      THEN Indexed(matchesBytesHighest(data, segmentDataStart, XMP_NS_BYTES),
                           IF matchesBytes(data, segmentDataStart, XMP_NS_BYTES)
                           THEN Ran(Text(TextDecode(Slice(data, xmpStart,
                                        xmpStart + xmpLength(segmentLength)))))
                           ELSE jpeg_readXmpLoop(data, offset + 2 + segmentLength))
                      ELSE jpeg_readXmpLoop(data, offset + 2 + segmentLength))))

\* A readXmp that goes straight to the scan.
jpeg_readXmp_Unverified(buffer) == jpeg_readXmpLoop(buffer, 2)

jpeg_readXmp(buffer) ==
    IF Len(buffer) < 2 THEN Ran(Null)
    ELSE Viewed(buffer, 0, 2,
         IF getUint16(buffer, 0) # 65496 THEN Ran(Null)
         ELSE jpeg_readXmpLoop(buffer, 2))

\* The value of findXmpSegmentRange: null, or {start, end}.
NoRange == [found |-> FALSE, start |-> 0, end |-> 0]

\* A range that leaves out the two bytes of the marker.
segmentRange_WithoutMarker(offset, segmentLength) ==
    [found |-> TRUE, start |-> offset, end |-> offset + segmentLength]

\* return { start: offset, end: offset + 2 + segmentLength }
segmentRange(offset, segmentLength) ==
    [found |-> TRUE, start |-> offset, end |-> offset + 2 + segmentLength]

RECURSIVE findXmpSegmentRangeLoop(_, _)
findXmpSegmentRangeLoop(data, offset) ==
    IF ~(offset < Len(data) - 4) THEN NoRange
    ELSE IF At(data, offset) # 255 THEN NoRange
    ELSE LET markerType == At(data, offset + 1)
             segmentLength == getUint16(data, offset + 2)
             segmentDataStart == offset + 4
         IN IF markerType = 218 THEN NoRange
            ELSE IF markerType = 255 THEN findXmpSegmentRangeLoop(data, offset + 1)
            ELSE IF markerType = 208 \/ markerType = 217
                THEN findXmpSegmentRangeLoop(data, offset + 2)
            ELSE IF /\ markerType = 225
                    /\ segmentLength >= Len(XMP_NS_BYTES) + 2
                    /\ matchesBytes(data, segmentDataStart, XMP_NS_BYTES)
                THEN segmentRange(offset, segmentLength)
            ELSE findXmpSegmentRangeLoop(data, offset + 2 + segmentLength)

findXmpSegmentRange(buffer) ==
    IF Len(buffer) < 2 \/ getUint16(buffer, 0) # 65496 THEN NoRange
    ELSE findXmpSegmentRangeLoop(buffer, 2)

\* A segment whose length field leaves out the field's own two bytes.
jpeg_newSegment_DataLength(packet) ==
    << 255, 225 >> \o setUint16(Len(XMP_NS_BYTES) + Len(packet))
        \o XMP_NS_BYTES \o packet

\* A check that forgets the two bytes of the length field.
exceedsLengthField_DataOnly(segmentDataLength) == segmentDataLength > 65535

\* if (segmentDataLength + 2 > 65535)
exceedsLengthField(segmentDataLength) == segmentDataLength + 2 > 65535

\* The APP1 segment writeXmp builds: marker, length, namespace, XMP bytes.
jpeg_newSegment(packet) ==
    << 255, 225 >> \o setUint16(Len(XMP_NS_BYTES) + Len(packet) + 2)
        \o XMP_NS_BYTES \o packet

jpeg_writeXmp(buffer, xmpXml) ==
    LET xmpBytes == TextEncode(xmpXml)
        segmentDataLength == Len(XMP_NS_BYTES) + Len(xmpBytes)
        newSegment == jpeg_newSegment(xmpBytes)
        existing == findXmpSegmentRange(buffer)
    IN IF exceedsLengthField(segmentDataLength) THEN Throw
       ELSE IF existing.found
           THEN Return(NewArray(Slice(buffer, 0, existing.start) \o newSegment
                                 \o SliceFrom(buffer, existing.end)))
       ELSE Return(NewArray(Slice(buffer, 0, 2) \o newSegment \o SliceFrom(buffer, 2)))

----------------------------------------------------------------------------
(* src/lib/png.ts                                                          *)

PNG_SIGNATURE == << 137, 80, 78, 71, 13, 10, 26, 10 >>

\* "XML:com.adobe.xmp"
XMP_KEYWORD ==
    << 88, 77, 76, 58, 99, 111, 109, 46, 97, 100, 111, 98, 101, 46, 120, 109, 112 >>

\* The chunk types the codec compares with: "iTXt", "IDAT", "IEND".
ITXT == << 105, 84, 88, 116 >>

IDAT == << 73, 68, 65, 84 >>

IEND == << 73, 69, 78, 68 >>

\* The value of readChunkHeader: null, or {type, dataOffset, dataLength}.
NoChunk == [isNull |-> TRUE, type |-> << >>, dataOffset |-> 0, dataLength |-> 0]

readChunkHeader(data, offset) ==
    IF offset + 8 > Len(data) THEN NoChunk
    ELSE [isNull |-> FALSE,
          type |-> Slice(data, offset + 4, offset + 8),
          dataOffset |-> offset + 8,
          dataLength |-> ToNumber(getUint32(data, offset))]

\* Uint8Array.prototype.indexOf(value, fromIndex): the first index from
\* fromIndex on that holds value, -1 when there is none.
IndexOf(arr, value, fromIndex) ==
    LET found == {i \in fromIndex..(Len(arr) - 1) : At(arr, i) = value}
    IN IF found = {} THEN -1 ELSE CHOOSE i \in found : \A j \in found : i <= j

\* The keyword is decoded as latin1 and compared with XMP_KEYWORD: equal
\* exactly when the bytes are the keyword's ASCII codes.
parseITXtForXmp(data, dataOffset, dataLength) ==
    LET chunkData == Slice(data, dataOffset, dataOffset + dataLength)
        nullIdx == IndexOf(chunkData, 0, 0)
        langEnd == IndexOf(chunkData, 0, nullIdx + 3)
        transEnd == IndexOf(chunkData, 0, langEnd + 1)
    IN IF nullIdx < 0 THEN Null
       ELSE IF Slice(chunkData, 0, nullIdx) # XMP_KEYWORD THEN Null
       ELSE IF langEnd < 0 THEN Null
       ELSE IF transEnd < 0 THEN Null
       ELSE Text(TextDecode(SliceFrom(chunkData, transEnd + 1)))

RECURSIVE png_readXmpLoop(_, _)
\* The while loop of readXmp; readChunkHeader, when it returns a header, has
\* evaluated view.getUint32(offset).
png_readXmpLoop(data, offset) ==
    IF ~(offset < Len(data) - 8) THEN Ran(Null)
    ELSE LET chunk == readChunkHeader(data, offset)
             xmp == parseITXtForXmp(data, chunk.dataOffset, chunk.dataLength)
         IN IF chunk.isNull THEN Ran(Null)
            ELSE Viewed(data, offset, 4,
                 IF chunk.type = ITXT /\ ~xmp.isNull THEN Ran(xmp)
                 ELSE IF chunk.type = IEND THEN Ran(Null)
                 ELSE png_readXmpLoop(data, chunk.dataOffset + chunk.dataLength + 4))

png_readXmp(buffer) ==
    Indexed(matchesBytesHighest(buffer, 0, PNG_SIGNATURE),
            IF ~matchesBytes(buffer, 0, PNG_SIGNATURE) THEN Ran(Null)
            ELSE png_readXmpLoop(buffer, 8))

buildITXtData(xmpXml) ==
    XMP_KEYWORD \o << 0, 0, 0, 0, 0 >> \o TextEncode(xmpXml)

RECURSIVE makeCrcEntry(_, _)
\* The inner loop of makeCrcTable: k more rounds on c.
makeCrcEntry(c, k) ==
    IF k = 0 THEN c
    ELSE IF c[2] % 2 = 1
        THEN makeCrcEntry(Xor32(<< 60856, 33568 >>, Shr1(c)), k - 1)   \* 0xedb88320
    ELSE makeCrcEntry(Shr1(c), k - 1)

makeCrcTable == [n \in 0..255 |-> makeCrcEntry(<< 0, n >>, 8)]

crcTable == makeCrcTable

RECURSIVE crc32Loop(_, _, _)
\* The loop of crc32 from round i on.  (Comparing the new crc with crc makes
\* TLC compute it in this round instead of nesting the rounds.)
crc32Loop(data, i, crc) ==
    IF i >= Len(data) THEN crc
    ELSE LET round == Xor32(crcTable[XorByte[crc[2] % 256][At(data, i)]], Shr8(crc))
         IN IF round = crc /\ Len(data) = 0 THEN crc
            ELSE crc32Loop(data, i + 1, round)

\* The register as the loop leaves it, without the final inversion.
crc32_NoFinalXor(data) == crc32Loop(data, 0, << 65535, 65535 >>)

\* 0xffffffff is << 65535, 65535 >>.
crc32(data) == Xor32(crc32Loop(data, 0, << 65535, 65535 >>), << 65535, 65535 >>)

buildPngChunk(type, chunkData) ==
    setUint32(Len(chunkData)) \o type \o chunkData
        \o BytesOf(crc32(type \o chunkData))

\* The locals of writeXmp when its scan loop ends (-1: null).
RECURSIVE png_writeXmpLoop(_, _, _, _, _)
png_writeXmpLoop(data, offset, existingStart, existingEnd, firstIdatOffset) ==
    LET chunk == readChunkHeader(data, offset)
        isXmp == /\ chunk.type = ITXT
                 /\ existingStart = -1
                 /\ ~parseITXtForXmp(data, chunk.dataOffset, chunk.dataLength).isNull
        newStart == IF isXmp THEN offset ELSE existingStart
        newEnd == IF isXmp THEN chunk.dataOffset + chunk.dataLength + 4
                  ELSE existingEnd
        newIdat == IF chunk.type = IDAT /\ firstIdatOffset = -1 THEN offset
                   ELSE firstIdatOffset
        nextOffset == chunk.dataOffset + chunk.dataLength + 4
    IN IF ~(offset < Len(data) - 8) \/ chunk.isNull
           THEN [existingStart |-> existingStart, existingEnd |-> existingEnd,
                 firstIdatOffset |-> firstIdatOffset, offset |-> offset]
       ELSE IF chunk.type = IEND
           THEN [existingStart |-> newStart, existingEnd |-> newEnd,
                 firstIdatOffset |-> newIdat, offset |-> nextOffset]
       ELSE png_writeXmpLoop(data, nextOffset, newStart, newEnd, newIdat)

png_writeXmp(buffer, xmpXml) ==
    LET newChunk == buildPngChunk(ITXT, buildITXtData(xmpXml))
        scan == png_writeXmpLoop(buffer, 8, -1, -1, -1)
        insertAt == IF scan.firstIdatOffset # -1 THEN scan.firstIdatOffset
                    ELSE scan.offset
    IN IF ~matchesBytes(buffer, 0, PNG_SIGNATURE) THEN Throw
       ELSE IF scan.existingStart # -1 /\ scan.existingEnd # -1
           THEN Return(NewArray(Slice(buffer, 0, scan.existingStart) \o newChunk
                                 \o SliceFrom(buffer, scan.existingEnd)))
       ELSE Return(NewArray(Slice(buffer, 0, insertAt) \o newChunk
                                 \o SliceFrom(buffer, insertAt)))

----------------------------------------------------------------------------
(* src/lib/webp.ts                                                         *)

\* "RIFF", "WEBP", "XMP "
RIFF_MAGIC == << 82, 73, 70, 70 >>

WEBP_MAGIC == << 87, 69, 66, 80 >>

XMP_FOURCC == << 88, 77, 80, 32 >>

\* "VP8X", "VP8 ", "VP8L"
VP8X == << 86, 80, 56, 88 >>

VP8 == << 86, 80, 56, 32 >>

VP8L == << 86, 80, 56, 76 >>

matchesFourCC(a, b) ==
    IF Len(a) < 4 \/ Len(b) < 4 THEN FALSE
    ELSE a[1] = b[1] /\ a[2] = b[2] /\ a[3] = b[3] /\ a[4] = b[4]

isWebP(data) ==
    /\ Len(data) >= 12
    /\ matchesFourCC(Slice(data, 0, 4), RIFF_MAGIC)
    /\ matchesFourCC(Slice(data, 8, 12), WEBP_MAGIC)

RECURSIVE webp_readXmpLoop(_, _)
webp_readXmpLoop(data, offset) ==
    IF ~(offset < Len(data) - 8) THEN Ran(Null)
    ELSE LET fourcc == Slice(data, offset, offset + 4)
             chunkSize == ToNumber(getUint32LE(data, offset + 4))
             chunkDataStart == offset + 8
         IN Viewed(data, offset + 4, 4,
                IF matchesFourCC(fourcc, XMP_FOURCC)
                THEN Ran(Text(TextDecode(Slice(data, chunkDataStart,
                                               chunkDataStart + chunkSize))))
                ELSE webp_readXmpLoop(data, chunkDataStart + chunkSize + (chunkSize % 2)))

webp_readXmp(buffer) ==
    IF ~isWebP(buffer) THEN Ran(Null) ELSE webp_readXmpLoop(buffer, 12)

buildRiffChunk(fourcc, chunkData) ==
    fourcc \o setUint32LE(Len(chunkData)) \o chunkData
        \o (IF Len(chunkData) % 2 # 0 THEN << 0 >> ELSE << >>)

RECURSIVE webp_writeXmpLoop(_, _, _, _, _)
\* The locals of writeXmp when its scan loop ends (-1: null).
webp_writeXmpLoop(data, offset, existingStart, existingEnd, vp8xOffset) ==
    IF ~(offset < Len(data) - 8)
    THEN [existingStart |-> existingStart, existingEnd |-> existingEnd,
          vp8xOffset |-> vp8xOffset]
    ELSE LET fourcc == Slice(data, offset, offset + 4)
             chunkSize == ToNumber(getUint32LE(data, offset + 4))
             chunkDataStart == offset + 8
             nextOffset == chunkDataStart + chunkSize + (chunkSize % 2)
             isXmp == matchesFourCC(fourcc, XMP_FOURCC)
         IN webp_writeXmpLoop(data, nextOffset,
                IF isXmp THEN offset ELSE existingStart,
                IF isXmp THEN nextOffset ELSE existingEnd,
                IF matchesFourCC(fourcc, VP8X) THEN offset ELSE vp8xOffset)

insertVP8XAndXmp(data, xmpChunk) ==
    LET firstFourcc == Slice(data, 12, 16)
        bits == getUint32LE(data, 21)
        \* bits & 0x3fff and (bits >> 14) & 0x3fff
        low14 == bits[2] % 16384
        next14 == (bits[2] \div 16384) + (bits[1] % 4096) * 4
        width == IF firstFourcc = VP8
                    THEN IF Len(data) > 30 THEN getUint16LE(data, 26) % 16384 ELSE 0
                 ELSE IF firstFourcc = VP8L
                    THEN IF Len(data) > 25 THEN low14 + 1 ELSE 0
                 ELSE 0
        height == IF firstFourcc = VP8
                    THEN IF Len(data) > 30 THEN getUint16LE(data, 28) % 16384 ELSE 0
                  ELSE IF firstFourcc = VP8L
                    THEN IF Len(data) > 25 THEN next14 + 1 ELSE 0
                  ELSE 0
        w == Max(width - 1, 0)
        h == Max(height - 1, 0)
        vp8xData == << 4, 0, 0, 0,
                       w % 256, (w \div 256) % 256, (w \div 65536) % 256,
                       h % 256, (h \div 256) % 256, (h \div 65536) % 256 >>
        vp8xChunk == buildRiffChunk(VP8X, vp8xData)
    IN Slice(data, 0, 12) \o vp8xChunk \o SliceFrom(data, 12) \o xmpChunk

RECURSIVE setVP8XFlagLoop(_, _)
setVP8XFlagLoop(data, offset) ==
    IF ~(offset < Len(data) - 8) THEN data
    ELSE LET fourcc == Slice(data, offset, offset + 4)
             chunkSize == ToNumber(getUint32LE(data, offset + 4))
         IN IF matchesFourCC(fourcc, VP8X)
                THEN [data EXCEPT ![offset + 8 + 1] = OrBit2(@)]
            ELSE setVP8XFlagLoop(data, offset + 8 + chunkSize + (chunkSize % 2))

\* The array after setVP8XFlag(data) has updated it in place.
setVP8XFlag(data) == setVP8XFlagLoop(data, 12)

\* A size field that counts the eight header bytes too.
setRiffSize_WholeLength(arr) == SetBytes(arr, setUint32LE(Len(arr)), 4)

\* resultView.setUint32(4, result.length - 8, true)
setRiffSize(arr) == SetBytes(arr, setUint32LE(Len(arr) - 8), 4)

webp_writeXmp(buffer, xmpXml) ==
    LET newChunk == buildRiffChunk(XMP_FOURCC, TextEncode(xmpXml))
        scan == webp_writeXmpLoop(buffer, 12, -1, -1, -1)
        result ==
            NewArray(IF scan.existingStart # -1 /\ scan.existingEnd # -1
                         THEN Slice(buffer, 0, scan.existingStart) \o newChunk
                                 \o SliceFrom(buffer, scan.existingEnd)
                     ELSE IF scan.vp8xOffset = -1
                         THEN insertVP8XAndXmp(buffer, newChunk)
                     ELSE buffer \o newChunk)
    IN IF ~isWebP(buffer) THEN Throw
       ELSE Return(Stored(result, setVP8XFlag(setRiffSize(result.bytes))))

-----------------------------------------------------------------------------
(* src/lib/xmp.ts                                                          *)

(* An XML text is a sequence of items: a character of character data, or a *)
(* run of spaces, or a whole piece of markup (a start tag, an end tag, an   *)
(* xpacket processing instruction).  Element names keep their prefix, and  *)
(* the prefixes dc, rdf and x stand for the namespaces the packets bind    *)
(* them to, so getElementsByTagNameNS(DC_NS, "description") selects        *)
(* "dc:description".                                                       *)

Ch(c) == [kind |-> "char", name |-> "", lang |-> "", c |-> c]

Chars(str) == [i \in 1..Len(str) |-> Ch(str[i])]

\* A start tag; lang is the value of its xml:lang attribute ("": none).
Open(name, lang) == [kind |-> "open", name |-> name, lang |-> lang, c |-> 0]

Close(name) == [kind |-> "close", name |-> name, lang |-> "", c |-> 0]

\* A run of n spaces of character data, as one item.
Spaces(n) == [kind |-> "spaces", name |-> "", lang |-> "", c |-> n]

\* <?xpacket begin=... ?> and <?xpacket end="w"?>
XPacket(which) == [kind |-> "pi", name |-> which, lang |-> "", c |-> 0]

\* A line feed and n spaces of indentation.
Indent(n) == << Ch(10) >> \o [i \in 1..n |-> Ch(32)]

\* The nodes of a parsed document.
Element(name, lang, children) ==
    [kind |-> "element", name |-> name, lang |-> lang, text |-> << >>,
     children |-> children]

TextNode(str) ==
    [kind |-> "text", name |-> "", lang |-> "", text |-> str, children |-> << >>]

\* The Char production of XML 1.0.
IsChar(c) ==
    \/ c \in {9, 10, 13}
    \/ c >= 32 /\ c <= 55295
    \/ c >= 57344 /\ c <= 65533
    \/ c >= 65536 /\ c <= 1114111

\* The predefined entities: "&amp;", "&lt;", "&gt;", "&quot;", "&apos;".
Entities ==
    { [ref |-> << 38, 97, 109, 112, 59 >>, c |-> 38],
      [ref |-> << 38, 108, 116, 59 >>, c |-> 60],
      [ref |-> << 38, 103, 116, 59 >>, c |-> 62],
      [ref |-> << 38, 113, 117, 111, 116, 59 >>, c |-> 34],
      [ref |-> << 38, 97, 112, 111, 115, 59 >>, c |-> 39] }

NotWellFormed == [ok |-> FALSE, text |-> << >>]

RECURSIVE CharDataFrom(_, _)
\* What an XML processor makes of character data from index i on: a
\* character outside Char, a '<', an '&' that starts none of the predefined
\* references and "]]>" are errors; a reference stands for its character;
\* CR LF and a single CR become LF.
CharDataFrom(run, i) ==
    IF i > Len(run) THEN [ok |-> TRUE, text |-> << >>]
    ELSE LET c == run[i]
             refs == {e \in Entities : /\ i + Len(e.ref) - 1 <= Len(run)
                                       /\ SubSeq(run, i, i + Len(e.ref) - 1) = e.ref}
             ref == CHOOSE e \in refs : TRUE
             step == IF c = 38 THEN Len(ref.ref)
                     ELSE IF c = 13 /\ i < Len(run) /\ run[i + 1] = 10 THEN 2
                     ELSE 1
             rest == CharDataFrom(run, i + step)
         IN IF ~IsChar(c) \/ c = 60 \/ (c = 38 /\ refs = {}) THEN NotWellFormed
            ELSE IF c = 93 /\ i + 2 <= Len(run) /\ run[i + 1] = 93 /\ run[i + 2] = 62
                THEN NotWellFormed
            ELSE IF ~rest.ok THEN NotWellFormed
            ELSE [ok |-> TRUE,
                  text |-> << IF c = 38 THEN ref.c ELSE IF c = 13 THEN 10 ELSE c >>
                               \o rest.text]

\* Character data that holds nothing but spaces and line feeds stands for
\* itself.
CharData(run) ==
    IF \A i \in 1..Len(run) : run[i] \in {10, 32}
    THEN [ok |-> TRUE, text |-> run]
    ELSE CharDataFrom(run, 1)

\* The index after the run of characters that starts at index i.
CharRunEnd(items, i) ==
    LET ends == {j \in (i + 1)..(Len(items) + 1) :
                    j = Len(items) + 1 \/ items[j].kind # "char"}
    IN CHOOSE j \in ends : \A k \in ends : j <= k

NoContent == [ok |-> FALSE, children |-> << >>, next |-> 0]

RECURSIVE ParseContent(_, _)
\* The nodes that the items from index i on stand for, up to the end tag
\* that closes them or the end of the text, and the index of that end.
\* Character data becomes a text node, a start tag with the content up to
\* its end tag an element; a processing instruction is a node without text
\* and is passed over.
ParseContent(items, i) ==
    IF i > Len(items) \/ items[i].kind = "close"
        THEN [ok |-> TRUE, children |-> << >>, next |-> i]
    ELSE LET kind == items[i].kind
             j == CharRunEnd(items, i)
             data == CharData([k \in 1..(j - i) |-> items[i + k - 1].c])
             inner == ParseContent(items, i + 1)
             closed == /\ inner.ok
                       /\ inner.next <= Len(items)
                       /\ items[inner.next] = Close(items[i].name)
             nodes == IF kind = "char" THEN << TextNode(data.text) >>
                      ELSE IF kind = "spaces"
                          THEN << TextNode([k \in 1..items[i].c |-> 32]) >>
                      ELSE IF kind = "open"
                          THEN << Element(items[i].name, items[i].lang, inner.children) >>
                      ELSE << >>
             rest == ParseContent(items, IF kind = "char" THEN j
                                         ELSE IF kind = "open" THEN inner.next + 1
                                         ELSE i + 1)
         IN IF kind = "char" /\ ~data.ok THEN NoContent
            ELSE IF kind = "open" /\ ~closed THEN NoContent
            ELSE IF ~rest.ok THEN NoContent
            ELSE [ok |-> TRUE, children |-> nodes \o rest.children, next |-> rest.next]

\* The document an XML parser reports an error with: its root is a
\* parsererror element.
ParserErrorDocument ==
    [pis |-> << >>, root |-> Element("parsererror", "", << TextNode(<< 63 >>) >>)]

\* new DOMParser().parseFromString(text, "text/xml"): a document has one
\* root element, and outside it processing instructions and white space
\* only.  pis are the processing instructions of the document.
parseFromString(items) ==
    LET content == ParseContent(items, 1)
        elements == SelectSeq(content.children, LAMBDA n : n.kind = "element")
        texts == SelectSeq(content.children, LAMBDA n : n.kind = "text")
    IN IF \/ ~content.ok
          \/ content.next <= Len(items)
          \/ Len(elements) # 1
          \/ \E t \in 1..Len(texts) :
                \E k \in 1..Len(texts[t].text) : texts[t].text[k] \notin {9, 10, 32}
       THEN ParserErrorDocument
       ELSE [pis |-> SelectSeq(items, LAMBDA it : it.kind = "pi"),
             root |-> elements[1]]

\* The document as the node above its root element.
DocumentNode(doc) == Element("#document", "", << doc.root >>)

RECURSIVE ElementPathsFrom(_, _)
\* The paths, in document order, of the elements below node that are among
\* its children from the k-th on or below these; a path is the sequence of
\* child indices that leads from node to the element.
ElementPathsFrom(node, k) ==
    IF k > Len(node.children) THEN << >>
    ELSE LET child == node.children[k]
             below == ElementPathsFrom(child, 1)
         IN (IF child.kind = "element"
             THEN << << k >> >> \o [i \in 1..Len(below) |-> << k >> \o below[i]]
             ELSE << >>)
            \o ElementPathsFrom(node, k + 1)

RECURSIVE NodeAt(_, _)
NodeAt(node, path) ==
    IF path = << >> THEN node ELSE NodeAt(node.children[path[1]], Tail(path))

RECURSIVE ReplaceAt(_, _, _)
\* The tree with the node at path replaced.
ReplaceAt(node, path, new) ==
    IF path = << >> THEN new
    ELSE [node EXCEPT !.children[path[1]] = ReplaceAt(@, Tail(path), new)]

\* node.getElementsByTagNameNS(namespace, localName), as paths from node.
getElementsByTagNameNS(node, name) ==
    SelectSeq(ElementPathsFrom(node, 1), LAMBDA p : NodeAt(node, p).name = name)

\* doc.querySelector("parsererror"): a type selector without a namespace
\* prefix matches an element of that local name in every namespace.
hasParserError(doc) == getElementsByTagNameNS(DocumentNode(doc), "parsererror") # << >>

RECURSIVE textContent(_)
\* node.textContent: the text of all text nodes below the node, in order.
textContent(node) ==
    IF node.kind = "text" THEN node.text
    ELSE IF node.children = << >> THEN << >>
    ELSE textContent(node.children[1])
            \o textContent([node EXCEPT !.children = Tail(@)])

\* node.textContent = str: the children are replaced by one text node, by
\* none when str is empty.
setTextContent(node, str) ==
    [node EXCEPT !.children = IF str = << >> THEN << >> ELSE << TextNode(str) >>]

\* The white space and line terminators String.prototype.trim removes.
IsTrimmed(c) ==
    c \in {9, 10, 11, 12, 13, 32, 160, 5760, 8232, 8233, 8239, 8287, 12288, 65279}
        \/ (c >= 8192 /\ c <= 8202)

\* String.prototype.trim()
trim(str) ==
    LET kept == {i \in 1..Len(str) : ~IsTrimmed(str[i])}
    IN IF kept = {} THEN << >>
       ELSE SubSeq(str, CHOOSE i \in kept : \A j \in kept : i <= j,
                        CHOOSE i \in kept : \A j \in kept : i >= j)

\* The first rdf:li among lis (paths below descEl) whose xml:lang is
\* "x-default", the first of all when there is none.
preferredLi(descEl, lis) ==
    LET defaults == SelectSeq(lis, LAMBDA p : NodeAt(descEl, p).lang = "x-default")
    IN IF defaults # << >> THEN defaults[1] ELSE lis[1]

extractDescription(xmpXml) ==
    LET doc == parseFromString(xmpXml)
        descElements == getElementsByTagNameNS(DocumentNode(doc), "dc:description")
        descEl == NodeAt(DocumentNode(doc), descElements[1])
        liElements == getElementsByTagNameNS(descEl, "rdf:li")
    IN IF hasParserError(doc) THEN << >>
       ELSE IF Len(descElements) = 0 THEN << >>
       ELSE IF Len(liElements) = 0 THEN trim(textContent(descEl))
       ELSE textContent(NodeAt(descEl, preferredLi(descEl, liElements)))

RECURSIVE replaceAll(_, _, _)
\* str.replace(/c/g, replacement) for a single character c.
replaceAll(str, c, replacement) ==
    IF str = << >> THEN << >>
    ELSE (IF Head(str) = c THEN replacement ELSE << Head(str) >>)
            \o replaceAll(Tail(str), c, replacement)

\* The five replacements with '&' replaced last, so that the '&' of the
\* references written before it is escaped again.
escapeXml_AmpersandLast(str) ==
    replaceAll(replaceAll(replaceAll(replaceAll(replaceAll(str,
        60, << 38, 108, 116, 59 >>),
        62, << 38, 103, 116, 59 >>),
        34, << 38, 113, 117, 111, 116, 59 >>),
        39, << 38, 97, 112, 111, 115, 59 >>),
        38, << 38, 97, 109, 112, 59 >>)

escapeXml(str) ==
    replaceAll(replaceAll(replaceAll(replaceAll(replaceAll(str,
        38, << 38, 97, 109, 112, 59 >>),
        60, << 38, 108, 116, 59 >>),
        62, << 38, 103, 116, 59 >>),
        34, << 38, 113, 117, 111, 116, 59 >>),
        39, << 38, 97, 112, 111, 115, 59 >>)

\* " ".repeat(2048)
Padding == << Spaces(2048) >>

createMinimalXmp(description) ==
    << XPacket("begin") >>
        \o Indent(0) \o << Open("x:xmpmeta", "") >>
        \o Indent(2) \o << Open("rdf:RDF", "") >>
        \o Indent(4) \o << Open("rdf:Description", "") >>
        \o Indent(6) \o << Open("dc:description", "") >>
        \o Indent(8) \o << Open("rdf:Alt", "") >>
        \o Indent(10) \o << Open("rdf:li", "x-default") >>
        \o Chars(escapeXml(description)) \o << Close("rdf:li") >>
        \o Indent(8) \o << Close("rdf:Alt") >>
        \o Indent(6) \o << Close("dc:description") >>
        \o Indent(4) \o << Close("rdf:Description") >>
        \o Indent(2) \o << Close("rdf:RDF") >>
        \o Indent(0) \o << Close("x:xmpmeta") >>
        \o Indent(0) \o Padding
        \o Indent(0) \o << XPacket("end") >>

\* How XMLSerializer writes the text of a text node: '&', '<' and '>' as
\* references, every other character as it is.
serializeText(str) ==
    replaceAll(replaceAll(replaceAll(str,
        38, << 38, 97, 109, 112, 59 >>),
        60, << 38, 108, 116, 59 >>),
        62, << 38, 103, 116, 59 >>)

RECURSIVE serializeNode(_)
serializeNode(node) ==
    IF node.kind = "text" THEN Chars(serializeText(node.text))
    ELSE IF node.children = << >>
        THEN << Open(node.name, node.lang), Close(node.name) >>
    ELSE LET first == serializeNode(node.children[1])
             others == serializeNode([node EXCEPT !.children = Tail(@)])
         IN << Open(node.name, node.lang) >> \o first
                \o SubSeq(others, 2, Len(others))

\* new XMLSerializer().serializeToString(doc)
serializeToString(doc) ==
    SelectSeq(doc.pis, LAMBDA it : it.name = "begin")
        \o serializeNode(doc.root)
        \o SelectSeq(doc.pis, LAMBDA it : it.name # "begin")

\* <rdf:Alt><rdf:li xml:lang="x-default">description</rdf:li></rdf:Alt>
newAlt(description) ==
    Element("rdf:Alt", "",
            << setTextContent(Element("rdf:li", "x-default", << >>), description) >>)

\* Lines 80-126 of modifyDescription: the document with the new description
\* put into it; Null where the code gives up on the document (line 124).
modifiedDocument(document, descElements, rdfDescriptions, newDescription) ==
    IF Len(descElements) > 0
    THEN LET descEl == NodeAt(document, descElements[1])
             liElements == getElementsByTagNameNS(descEl, "rdf:li")
         IN IF Len(liElements) > 0
            THEN LET target == preferredLi(descEl, liElements)
                 IN Text(ReplaceAt(document, descElements[1] \o target,
                            setTextContent(NodeAt(descEl, target), newDescription)))
            ELSE Text(ReplaceAt(document, descElements[1],
                        [descEl EXCEPT !.children = << newAlt(newDescription) >>]))
    ELSE IF Len(rdfDescriptions) > 0
    THEN LET rdfDesc == NodeAt(document, rdfDescriptions[1])
         IN Text(ReplaceAt(document, rdfDescriptions[1],
                    [rdfDesc EXCEPT !.children =
                        @ \o << Element("dc:description", "",
                                        << newAlt(newDescription) >>) >>]))
    ELSE Null

\* Lines 128-141 of modifyDescription: the serialized document, wrapped in
\* xpacket markers and padding when it has no "<?xpacket begin".
rewrapped(result) ==
    IF \E i \in 1..Len(result) : result[i] = XPacket("begin") THEN result
    ELSE << XPacket("begin") >> \o Indent(0) \o result
            \o Indent(0) \o Padding \o Indent(0) \o << XPacket("end") >>

\* modifyDescription after its line 74, doc being the parsed document.
modifyParsed(doc, modified, newDescription) ==
    IF hasParserError(doc) \/ modified.isNull
    THEN createMinimalXmp(newDescription)
    ELSE rewrapped(serializeToString([doc EXCEPT !.root = modified.text.children[1]]))

modifyDocument(doc, document, newDescription) ==
    modifyParsed(doc,
        modifiedDocument(document,
            getElementsByTagNameNS(document, "dc:description"),
            getElementsByTagNameNS(document, "rdf:Description"),
            newDescription),
        newDescription)

modifyDescription(xmpXml, newDescription) ==
    LET Parsed(doc) == modifyDocument(doc, DocumentNode(doc), newDescription)
    IN Parsed(parseFromString(xmpXml))

\* existingXml is null or a string; the empty string counts as absent.
buildXmpXml(existingXml, newDescription) ==
    IF ~existingXml.isNull /\ existingXml.text # << >>
    THEN modifyDescription(existingXml.text, newDescription)
    ELSE createMinimalXmp(newDescription)

----------------------------------------------------------------------------
(* The scan loops, one iteration at a time                                 *)

\* What one evaluation of a loop's condition and body does to the loop:
\* the loop is left (condition false, break or return) or goes on, and
\* offset has the given value.
Leave(offset) == [left |-> TRUE, offset |-> offset]

GoOn(offset) == [left |-> FALSE, offset |-> offset]

\* An advance that forgets the two bytes of the marker.
jpeg_nextOffset_LengthOnly(offset, segmentLength) == offset + segmentLength

\* offset += 2 + segmentLength
jpeg_nextOffset(offset, segmentLength) == offset + 2 + segmentLength

\* The while loop of jpeg.readXmp.
jpeg_readXmpStep(data, offset) ==
    IF ~(offset < Len(data) - 4) THEN Leave(offset)
    ELSE IF At(data, offset) # 255 THEN Leave(offset)
    ELSE LET markerType == At(data, offset + 1)
             segmentLength == getUint16(data, offset + 2)
         IN IF markerType = 218 THEN Leave(offset)
            ELSE IF markerType = 255 THEN GoOn(offset + 1)
            ELSE IF markerType = 208 \/ markerType = 217 THEN GoOn(offset + 2)
            ELSE IF /\ markerType = 225
                    /\ segmentLength >= Len(XMP_NS_BYTES) + 2
                    /\ matchesBytes(data, offset + 4, XMP_NS_BYTES)
                THEN Leave(offset)
            ELSE GoOn(jpeg_nextOffset(offset, segmentLength))

\* The while loop of findXmpSegmentRange, which jpeg.writeXmp calls.
findXmpSegmentRangeStep(data, offset) ==
    IF ~(offset < Len(data) - 4) THEN Leave(offset)
    ELSE IF At(data, offset) # 255 THEN Leave(offset)
    ELSE LET markerType == At(data, offset + 1)
             segmentLength == getUint16(data, offset + 2)
         IN IF markerType = 218 THEN Leave(offset)
            ELSE IF markerType = 255 THEN GoOn(offset + 1)
            ELSE IF markerType = 208 \/ markerType = 217 THEN GoOn(offset + 2)
            ELSE IF /\ markerType = 225
                    /\ segmentLength >= Len(XMP_NS_BYTES) + 2
                    /\ matchesBytes(data, offset + 4, XMP_NS_BYTES)
                THEN Leave(offset)
            ELSE GoOn(jpeg_nextOffset(offset, segmentLength))

\* Whether parseITXtForXmp returns a string: none of its four
\* "return null" statements is reached.  The loop asks for no more than
\* this, so the text is left undecoded here.
parsesAsXmp(data, dataOffset, dataLength) ==
    LET chunkData == Slice(data, dataOffset, dataOffset + dataLength)
        nullIdx == IndexOf(chunkData, 0, 0)
        langEnd == IndexOf(chunkData, 0, nullIdx + 3)
        transEnd == IndexOf(chunkData, 0, langEnd + 1)
    IN /\ nullIdx >= 0
       /\ Slice(chunkData, 0, nullIdx) = XMP_KEYWORD
       /\ langEnd >= 0
       /\ transEnd >= 0

\* The while loop of png.readXmp.
png_readXmpStep(data, offset) ==
    IF ~(offset < Len(data) - 8) THEN Leave(offset)
    ELSE LET chunk == readChunkHeader(data, offset)
             next == chunk.dataOffset + chunk.dataLength + 4
         IN IF chunk.isNull THEN Leave(offset)
            ELSE IF /\ chunk.type = ITXT
                    /\ parsesAsXmp(data, chunk.dataOffset, chunk.dataLength)
                THEN Leave(offset)
            ELSE IF chunk.type = IEND THEN Leave(next)
            ELSE GoOn(next)

\* The while loop of png.writeXmp.
png_writeXmpStep(data, offset) ==
    IF ~(offset < Len(data) - 8) THEN Leave(offset)
    ELSE LET chunk == readChunkHeader(data, offset)
             next == chunk.dataOffset + chunk.dataLength + 4
         IN IF chunk.isNull THEN Leave(offset)
            ELSE IF chunk.type = IEND THEN Leave(next)
            ELSE GoOn(next)

\* The while loop of webp.readXmp.
webp_readXmpStep(data, offset) ==
    IF ~(offset < Len(data) - 8) THEN Leave(offset)
    ELSE LET fourcc == Slice(data, offset, offset + 4)
             chunkSize == ToNumber(getUint32LE(data, offset + 4))
             chunkDataStart == offset + 8
         IN IF matchesFourCC(fourcc, XMP_FOURCC) THEN Leave(offset)
            ELSE GoOn(chunkDataStart + chunkSize + (chunkSize % 2))

\* The while loop of webp.writeXmp.
webp_writeXmpStep(data, offset) ==
    IF ~(offset < Len(data) - 8) THEN Leave(offset)
    ELSE LET chunkSize == ToNumber(getUint32LE(data, offset + 4))
             chunkDataStart == offset + 8
             nextOffset == chunkDataStart + chunkSize + (chunkSize % 2)
         IN GoOn(nextOffset)

\* The while loop of setVP8XFlag.
setVP8XFlagStep(data, offset) ==
    IF ~(offset < Len(data) - 8) THEN Leave(offset)
    ELSE LET fourcc == Slice(data, offset, offset + 4)
             chunkSize == ToNumber(getUint32LE(data, offset + 4))
         IN IF matchesFourCC(fourcc, VP8X) THEN Leave(offset)
            ELSE GoOn(offset + 8 + chunkSize + (chunkSize % 2))

----------------------------------------------------------------------------
(* The files and the strings the codec is applied to                       *)

\* The longest sequence of segments or chunks after a file's signature.
MaxPieces == 2

\* The longest chain of writeXmp calls, each on the previous call's result.
MaxWrites == 2

\* The sequences of at most n elements of S.
SeqsUpTo(S, n) == UNION {[1..k -> S] : k \in 0..n}

\* XML strings: empty, "a", "e-acute" (two bytes), "a" after a byte order
\* mark U+FEFF, and an unpaired surrogate U+D800.
XmlStrings == { << >>, << 97 >>, << 233 >>, << 65279, 97 >>, << 55296 >> }

\* Whether str is a well-formed string (no unpaired surrogate) that does not
\* begin with U+FEFF.
PlainString(str) ==
    /\ \A i \in 1..Len(str) : str[i] < 55296 \/ str[i] > 57343
    /\ (str = << >> \/ str[1] # 65279)

\* A buffer of none of the three formats ("GIF89a").
NotAnImage == << 71, 73, 70, 56, 57, 97 >>

SOI == << 255, 216 >>

\* An APP1 segment with the XMP namespace and the packet "b".
JpegXmpSegment == << 255, 225, 0, 32 >> \o XMP_NS_BYTES \o << 98 >>

\* The same segment declaring 8 payload bytes more than the file holds.
JpegTruncatedXmpSegment == << 255, 225, 0, 40 >> \o XMP_NS_BYTES \o << 98 >>

JpegPieces ==
    { << 255, 224, 0, 4, 74, 70 >>,              \* APP0
      << 255, 225, 0, 4, 69, 120 >>,             \* APP1 that is not XMP
      JpegXmpSegment,
      << 255 >>,                                 \* a fill byte
      << 255, 209 >>,                            \* RST1
      << 255, 218, 0, 2, 1, 2, 255, 217 >>,      \* SOS, scan data, EOI
      JpegTruncatedXmpSegment }

JpegInputs ==
    {NotAnImage} \cup {SOI \o Concat(ps) : ps \in SeqsUpTo(JpegPieces, MaxPieces)}

\* An iTXt chunk with the XMP keyword and the packet "b".
PngXmpChunk == buildPngChunk(ITXT, XMP_KEYWORD \o << 0, 0, 0, 0, 0, 98 >>)

\* The same chunk cut short after its 22nd data byte.
PngTruncatedXmpChunk == SubSeq(PngXmpChunk, 1, 30)

PngPieces ==
    { buildPngChunk(<< 73, 72, 68, 82 >>, << 1 >>),     \* IHDR
      buildPngChunk(IDAT, << 1, 2 >>),
      buildPngChunk(IEND, << >>),
      PngXmpChunk,
      PngTruncatedXmpChunk,
      buildPngChunk(ITXT, << 107, 0, 0, 0, 0, 0, 118 >>), \* iTXt that is not XMP
      << 0, 0, 0, 9, 116, 69, 88, 116, 107 >> }          \* tEXt cut short

PngInputs ==
    {NotAnImage}
        \cup {PNG_SIGNATURE \o Concat(ps) : ps \in SeqsUpTo(PngPieces, MaxPieces)}

\* A VP8L chunk of a 100 x 50 image: signature 0x2F, then 99 | 49 << 14.
WebpVP8L == buildRiffChunk(VP8L, << 47, 99, 64, 12, 0 >>)

\* A lossy chunk of a 100 x 50 image: frame tag, start code, width, height.
WebpVP8 == buildRiffChunk(VP8, << 0, 0, 0, 157, 1, 42, 100, 0, 50, 0 >>)

\* A VP8X chunk with the alpha flag (0x10) and canvas 100 x 50.
WebpVP8X == buildRiffChunk(VP8X, << 16, 0, 0, 0, 99, 0, 0, 49, 0, 0 >>)

\* An 'XMP ' chunk with the packet "b".
WebpXmpChunk == buildRiffChunk(XMP_FOURCC, << 98 >>)

\* A VP8X chunk that declares no data, so has no flags byte.
WebpEmptyVP8X == buildRiffChunk(VP8X, << >>)

WebpPieces ==
    { WebpVP8L, WebpVP8, WebpVP8X, WebpXmpChunk, WebpEmptyVP8X,
      << 73, 67, 67, 80, 6, 0, 0, 0, 1 >> }      \* ICCP cut short

\* The RIFF header with the true size, or with a stale size of zero.
WebpFile(chunks, stale) ==
    RIFF_MAGIC \o setUint32LE(IF stale THEN 0 ELSE Len(chunks) + 4)
        \o WEBP_MAGIC \o chunks

\* A lossless file that ends with the last byte of the 32-bit field, with
\* no pad byte after the five data bytes.
WebpMinimalVP8L == WebpFile(SubSeq(WebpVP8L, 1, 13), FALSE)

WebpInputs ==
    {NotAnImage, WebpMinimalVP8L}
        \cup {WebpFile(Concat(ps), stale) :
                ps \in SeqsUpTo(WebpPieces, MaxPieces), stale \in BOOLEAN}

Formats == {"jpeg", "png", "webp"}

Inputs(f) ==
    IF f = "jpeg" THEN JpegInputs ELSE IF f = "png" THEN PngInputs ELSE WebpInputs

----------------------------------------------------------------------------
(* The codec as a state machine: a file is loaded, then written and read   *)

VARIABLES
    format,      \* which module handles the file
    original,    \* the file as it was loaded
    input,       \* the buffer handed to the last writeXmp call
    buffer,      \* the current file: the input, or the last call's result
    xmpXml,      \* the string handed to the last writeXmp call
    threw,       \* whether the last writeXmp call threw
    returned,    \* the ArrayBuffer it returned: "new", "caller" or "none"
    inputAfter,  \* the bytes of the buffer handed to it when it ended
    readResult,  \* the value of the last readXmp call
    readThrew,   \* whether the last readXmp call threw
    readHighest, \* the highest index the last readXmp call read (-1: none)
    existingXml, \* the packet handed to buildXmpXml: null or a string
    description, \* the description handed to buildXmpXml
    builtXml,    \* the packet buildXmpXml returned
    extracted,   \* the value of the last extractDescription call
    writes,      \* the number of writeXmp calls so far
    loop,        \* the scan loop that is followed step by step, or "none"
    offset,      \* that loop's variable offset
    source,      \* App: the state source (kind, selectedFolderId, images)
    loading,     \* App: the state loading
    folderImagesLoading, \* App: the state folderImagesLoading
    localValue,  \* ImageItem: the state localValue of each mounted item
    opening,     \* the handleOpenFiles or handleOpenFolder call in flight
    loads,       \* the handleSelectTreeFolder calls that await their images
    saves,       \* the handleSave calls in flight
    disk,        \* the XMP each file carries on disk
    created,     \* the number of object URLs created so far
    revoked,     \* the object URLs that were revoked
    timers,      \* the images whose setTimeout callback is pending
    pc           \* "loaded", "written", "failed" or "read"

\* The variables of the description functions, and those of the codecs.
xmpVars == << existingXml, description, builtXml, extracted >>

codecVars ==
    << format, original, input, buffer, xmpXml, threw, returned, inputAfter,
       readResult, readThrew, readHighest, writes >>

\* The variables of a scan loop that is followed step by step.
scanVars == << loop, offset >>

\* The variables of the application shell.
appVars ==
    << source, loading, folderImagesLoading, localValue, opening, loads, saves,
       disk, created, revoked, timers >>

vars == << codecVars, xmpVars, scanVars, appVars, pc >>

\* No description has been built or extracted.
NoDescription ==
    /\ existingXml = Null
    /\ description = << >>
    /\ builtXml = << >>
    /\ extracted = << >>

\* No scan loop is followed step by step.
NoScan ==
    /\ loop = "none"
    /\ offset = 0

\* The files the pickers and the folders offer, by name.
Files == {"a.jpg", "b.png"}

\* At most MaxUrls object URLs are created, MaxLoads handleSelectTreeFolder
\* calls await their images and MaxSaves handleSave calls are in flight.
MaxUrls == 2

MaxLoads == 2

MaxSaves == 2

\* A file without XMP, the value null of selectedFolderId, the localValue
\* of an item that is not mounted, and no call of a picker.
NoXmp == "null"

NoFolder == "null"

Unmounted == "unmounted"

NotOpening == [kind |-> "none", handles |-> << >>]

\* useState<SourceMode>({ kind: "none" })
NoSource == [kind |-> "none", selectedFolderId |-> NoFolder, images |-> << >>]

\* The application has not been started.
NoApp ==
    /\ source = NoSource
    /\ loading = FALSE
    /\ folderImagesLoading = FALSE
    /\ localValue = [u \in 1 .. MaxUrls |-> Unmounted]
    /\ opening = NotOpening
    /\ loads = << >>
    /\ saves = {}
    /\ disk = [f \in Files |-> NoXmp]
    /\ created = 0
    /\ revoked = {}
    /\ timers = {}

Init ==
    /\ format \in Formats
    /\ buffer \in Inputs(format)
    /\ original = buffer
    /\ input = buffer
    /\ xmpXml = << >>
    /\ threw = FALSE
    /\ returned = "none"
    /\ inputAfter = buffer
    /\ readResult = Null
    /\ readThrew = FALSE
    /\ readHighest = -1
    /\ writes = 0
    /\ NoDescription
    /\ NoScan
    /\ NoApp
    /\ pc = "loaded"

\* One writeXmp call with argument str and outcome r on the current buffer.
\* The only array the codecs store into after building it is the result, so
\* the caller's bytes change exactly when the result is on the caller's
\* ArrayBuffer.
Written(str, r) ==
    /\ input' = buffer
    /\ xmpXml' = str
    /\ threw' = r.threw
    /\ returned' = r.returned
    /\ inputAfter' = IF r.returned = "caller" THEN r.buffer ELSE buffer
    /\ buffer' = IF r.threw THEN buffer ELSE r.buffer
    /\ pc' = IF r.threw THEN "failed" ELSE "written"
    /\ writes' = writes + 1
    /\ UNCHANGED << format, original, readResult, readThrew, readHighest >>
    /\ UNCHANGED << xmpVars, scanVars, appVars >>

JpegWriteXmp ==
    /\ format = "jpeg"
    /\ writes < MaxWrites
    /\ \E xml \in XmlStrings : Written(xml, jpeg_writeXmp(buffer, xml))

PngWriteXmp ==
    /\ format = "png"
    /\ writes < MaxWrites
    /\ \E xml \in XmlStrings : Written(xml, png_writeXmp(buffer, xml))

WebpWriteXmp ==
    /\ format = "webp"
    /\ writes < MaxWrites
    /\ \E xml \in XmlStrings : Written(xml, webp_writeXmp(buffer, xml))

\* One readXmp call with outcome r on the current buffer.
Read(r) ==
    /\ pc # "read"
    /\ readResult' = r.value
    /\ readThrew' = r.threw
    /\ readHighest' = r.highest
    /\ pc' = "read"
    /\ UNCHANGED << format, original, input, buffer, xmpXml, threw, returned,
                    inputAfter, writes >>
    /\ UNCHANGED << xmpVars, scanVars, appVars >>

JpegReadXmp == format = "jpeg" /\ Read(jpeg_readXmp(buffer))

PngReadXmp == format = "png" /\ Read(png_readXmp(buffer))

WebpReadXmp == format = "webp" /\ Read(webp_readXmp(buffer))

Next ==
    \/ JpegWriteXmp
    \/ JpegReadXmp
    \/ PngWriteXmp
    \/ PngReadXmp
    \/ WebpWriteXmp
    \/ WebpReadXmp

Spec == Init /\ [][Next]_vars

----------------------------------------------------------------------------
(* The framing of the three containers, as the claims speak of it          *)

\* Whether a buffer begins with the magic signature of format f.
HasMagic(f, bytes) ==
    IF f = "jpeg" THEN Len(bytes) >= 2 /\ bytes[1] = 255 /\ bytes[2] = 216
    ELSE IF f = "png" THEN Len(bytes) >= 8 /\ SubSeq(bytes, 1, 8) = PNG_SIGNATURE
    ELSE /\ Len(bytes) >= 12
         /\ SubSeq(bytes, 1, 4) = RIFF_MAGIC
         /\ SubSeq(bytes, 9, 12) = WEBP_MAGIC

RECURSIVE JpegXmpSegments(_, _)
\* The offsets of the XMP APP1 segments of a JPEG from offset at on, in
\* order: fill bytes are skipped one by one, the markers 0xD0..0xD9 carry no
\* length, every other marker carries one, and start-of-scan ends the walk.
JpegXmpSegments(bytes, at) ==
    IF at + 4 > Len(bytes) \/ At(bytes, at) # 255 \/ At(bytes, at + 1) = 218
        THEN << >>
    ELSE IF At(bytes, at + 1) = 255 THEN JpegXmpSegments(bytes, at + 1)
    ELSE IF At(bytes, at + 1) \in 208..217 THEN JpegXmpSegments(bytes, at + 2)
    ELSE (IF /\ At(bytes, at + 1) = 225
             /\ getUint16(bytes, at + 2) >= Len(XMP_NS_BYTES) + 2
             /\ Slice(bytes, at + 4, at + 4 + Len(XMP_NS_BYTES)) = XMP_NS_BYTES
          THEN << at >> ELSE << >>)
         \o JpegXmpSegments(bytes, at + 2 + getUint16(bytes, at + 2))

RECURSIVE PngXmpChunks(_, _)
\* The offsets of the iTXt chunks of a PNG whose keyword is XML:com.adobe.xmp.
PngXmpChunks(bytes, at) ==
    IF at + 8 > Len(bytes) THEN << >>
    ELSE LET size == ToNumber(getUint32(bytes, at))
             keyword == Slice(bytes, at + 8, at + 8 + Min(size, Len(XMP_KEYWORD) + 1))
         IN (IF Slice(bytes, at + 4, at + 8) = ITXT /\ keyword = XMP_KEYWORD \o << 0 >>
             THEN << at >> ELSE << >>)
            \o PngXmpChunks(bytes, at + 12 + size)

RECURSIVE RiffChunks(_, _, _)
\* The offsets of the chunks of a RIFF file that carry the given FourCC.
RiffChunks(bytes, at, id) ==
    IF at + 8 > Len(bytes) THEN << >>
    ELSE LET size == ToNumber(getUint32LE(bytes, at + 4))
         IN (IF Slice(bytes, at, at + 4) = id THEN << at >> ELSE << >>)
            \o RiffChunks(bytes, at + 8 + size + (size % 2), id)

\* The offsets of the XMP-bearing segments or chunks of a file of format f.
XmpRecords(f, bytes) ==
    IF ~HasMagic(f, bytes) THEN << >>
    ELSE IF f = "jpeg" THEN JpegXmpSegments(bytes, 2)
    ELSE IF f = "png" THEN PngXmpChunks(bytes, 8)
    ELSE RiffChunks(bytes, 12, XMP_FOURCC)

RECURSIVE StandardCrcBits(_, _)
\* k shift-and-subtract steps of CRC-32 on the register c, polynomial
\* 0xEDB88320 (reflected).
StandardCrcBits(c, k) ==
    IF k = 0 THEN c
    ELSE LET half == << c[1] \div 2, (c[1] % 2) * 32768 + (c[2] \div 2) >>
         IN StandardCrcBits(IF c[2] % 2 = 0 THEN half
                            ELSE << BitXor(half[1], 60856), BitXor(half[2], 33568) >>,
                            k - 1)

RECURSIVE StandardCrcBytes(_, _, _)
\* The register after the bytes from index i on have been fed to it.
StandardCrcBytes(bytes, i, c) ==
    IF i > Len(bytes) THEN c
    ELSE LET fed == StandardCrcBits(<< c[1], BitXor(c[2], bytes[i]) >>, 8)
         IN IF fed = c /\ Len(bytes) = 0 THEN c
            ELSE StandardCrcBytes(bytes, i + 1, fed)

\* CRC-32 of ISO 3309 and the PNG specification, bit by bit: initial value
\* 0xFFFFFFFF, final XOR 0xFFFFFFFF.
StandardCrc32(bytes) ==
    LET c == StandardCrcBytes(bytes, 1, << 65535, 65535 >>)
    IN << 65535 - c[1], 65535 - c[2] >>

\* The data of the iTXt chunk that carries the packet str: keyword, NUL,
\* two zero bytes, two empty NUL-terminated strings, the packet.
XmpITXtData(str) == XMP_KEYWORD \o << 0, 0, 0, 0, 0 >> \o TextEncode(str)

\* The four CRC bytes, most significant first, of the iTXt chunk of each
\* packet: the CRC-32 of the type bytes followed by the data bytes.
XmpITXtCrc ==
    [str \in XmlStrings |->
        LET crc == StandardCrc32(ITXT \o XmpITXtData(str))
        IN << crc[1] \div 256, crc[1] % 256, crc[2] \div 256, crc[2] % 256 >>]

\* The segment or chunk that carries each packet in a file of each format,
\* laid out as the formats prescribe.
XmpRecordOf ==
    [f \in Formats, str \in XmlStrings |->
        IF f = "jpeg"
            THEN << 255, 225, 0, Len(XMP_NS_BYTES) + Len(TextEncode(str)) + 2 >>
                    \o XMP_NS_BYTES \o TextEncode(str)
        ELSE IF f = "png"
            THEN << 0, 0, 0, Len(XmpITXtData(str)) >> \o ITXT \o XmpITXtData(str)
                    \o XmpITXtCrc[str]
        ELSE XMP_FOURCC \o << Len(TextEncode(str)), 0, 0, 0 >> \o TextEncode(str)
                \o (IF Len(TextEncode(str)) % 2 = 1 THEN << 0 >> ELSE << >>)]

XmpRecord(f, str) == XmpRecordOf[f, str]

\* The last call of writeXmp returned, and its input carried the signature.
WriteReturned == writes > 0 /\ ~threw /\ HasMagic(format, input)

----------------------------------------------------------------------------
(* Round trip: readXmp(writeXmp(buf, xml))                                 *)

\* readXmp has just been applied to the result of a writeXmp call that
\* returned, on a file of format f that carried the signature.
ReadBack(f) == format = f /\ pc = "read" /\ WriteReturned

\* C1 as stated: for every JPEG buffer that starts with SOI and every string
\* xml within the APP1 limit, readXmp(writeXmp(buf, xml)) is exactly xml.
C1_JpegRoundTripAnyString == ReadBack("jpeg") => readResult = Text(xmpXml)

\* C1, amended: for every JPEG buffer that starts with SOI and every
\* well-formed string xml (no unpaired surrogate) that does not begin with
\* U+FEFF and is within the APP1 limit, readXmp(writeXmp(buf, xml)) is
\* exactly xml.
C1_JpegRoundTrip ==
    (ReadBack("jpeg") /\ PlainString(xmpXml)) => readResult = Text(xmpXml)

\* A packet with a two-byte character has replaced the XMP segment of a JPEG
\* that carried one after another segment, and has been read back.
C1_Witness ==
    /\ ReadBack("jpeg")
    /\ xmpXml = << 233 >>
    /\ readResult = Text(<< 233 >>)
    /\ XmpRecords("jpeg", input) # << >>
    /\ XmpRecords("jpeg", input)[1] > 2

\* C2: for every PNG buffer that starts with the signature (with or without
\* IDAT, IEND or an XMP iTXt chunk) and every string xml,
\* readXmp(writeXmp(buf, xml)) is exactly xml.  Stated here for the strings
\* that UTF-8 carries unchanged, which the claim includes.
C2_PngRoundTrip ==
    (ReadBack("png") /\ PlainString(xmpXml)) => readResult = Text(xmpXml)

\* C3: for every WebP buffer with the RIFF/WEBP header (with or without VP8X,
\* with zero, one or several 'XMP ' chunks) and every string xml, the empty
\* one included, readXmp(writeXmp(buf, xml)) is exactly xml.  Stated here for
\* the strings that UTF-8 carries unchanged, which the claim includes.
C3_WebpRoundTrip ==
    (ReadBack("webp") /\ PlainString(xmpXml)) => readResult = Text(xmpXml)

----------------------------------------------------------------------------
(* One XMP record per file                                                 *)

\* C4: starting from a buffer with the format's signature and at most one
\* XMP-bearing segment or chunk, after one or more writeXmp calls, each on
\* the result of the one before, the buffer holds exactly one XMP-bearing
\* segment or chunk.
C4_ExactlyOneXmpRecord ==
    (/\ HasMagic(format, original)
     /\ Len(XmpRecords(format, original)) <= 1
     /\ writes >= 1
     /\ ~threw)
        => Len(XmpRecords(format, buffer)) = 1

\* C5: when the input holds one or more XMP-bearing segments or chunks, the
\* first of which readXmp returns, writeXmp puts the new record in the place
\* of that first one and the number of records stays the same.
C5_ReplacesFirstRecord ==
    (/\ WriteReturned
     /\ XmpRecords(format, input) # << >>
     /\ ~(IF format = "jpeg" THEN jpeg_readXmp(input)
          ELSE IF format = "png" THEN png_readXmp(input)
          ELSE webp_readXmp(input)).value.isNull)
        => LET first == XmpRecords(format, input)[1]
               new == XmpRecord(format, xmpXml)
           IN /\ Len(XmpRecords(format, buffer)) = Len(XmpRecords(format, input))
              /\ XmpRecords(format, buffer)[1] = first
              /\ Slice(buffer, first, first + Len(new)) = new

----------------------------------------------------------------------------
(* What a write leaves alone                                               *)

\* The first n bytes of a file, and the bytes from offset n on.
Take(bytes, n) == SubSeq(bytes, 1, Min(n, Len(bytes)))

Drop(bytes, n) == SubSeq(bytes, Min(n, Len(bytes)) + 1, Len(bytes))

\* The offset just past the segment or chunk at offset s, by its own length
\* field.
RecordEnd(f, bytes, s) ==
    IF f = "jpeg" THEN s + 2 + getUint16(bytes, s + 2)
    ELSE IF f = "png" THEN s + 12 + ToNumber(getUint32(bytes, s))
    ELSE LET size == ToNumber(getUint32LE(bytes, s + 4))
         IN s + 8 + size + (size % 2)

\* after is before with one range replaced: the range [s, e) is empty, or is
\* one XMP record of before (as much of it as the file holds), and every
\* byte of before outside the range is in after, unchanged and in order.
Frame(f, before, after) ==
    \E s \in 0..Len(before) :
        \E e \in {s} \cup {Min(RecordEnd(f, before, r), Len(before)) :
                            r \in {XmpRecords(f, before)[i] :
                                    i \in DOMAIN XmpRecords(f, before)} \cap {s}} :
            /\ e >= s
            /\ Len(after) >= Len(before) - (e - s)
            /\ Take(after, s) = Take(before, s)
            /\ Drop(after, Len(after) - (Len(before) - e)) = Drop(before, e)

\* The offset of the flags byte (the first data byte) of the first VP8X
\* chunk of a WebP file; -1 when the file has no VP8X chunk or when that
\* chunk declares or holds no data.
Vp8xFlagsOffset(bytes) ==
    LET chunks == RiffChunks(bytes, 12, VP8X)
    IN IF chunks = << >> THEN -1
       ELSE IF getUint32LE(bytes, chunks[1] + 4) = << 0, 0 >> THEN -1
       ELSE IF chunks[1] + 8 >= Len(bytes) THEN -1
       ELSE chunks[1] + 8

\* A WebP file without the bytes a write may change outside the 'XMP '
\* chunk: the RIFF size (bytes 4-7) and bit 2 of the VP8X flags byte.
Masked(bytes) ==
    [i \in 1..Len(bytes) |->
        IF i \in 5..8 THEN 0
        ELSE IF i = Vp8xFlagsOffset(bytes) + 1 /\ (bytes[i] \div 4) % 2 = 1
            THEN bytes[i] - 4
        ELSE bytes[i]]

\* C6: writeXmp changes only the XMP segment or chunk: the bytes of the input
\* before the replaced or inserted range and the bytes after it are in the
\* output unchanged and in order; for WebP the RIFF size bytes, bit 2 of the
\* VP8X flags byte, and a VP8X chunk synthesized right after the 12-byte
\* header may differ as well.
C6_OtherBytesUntouched ==
    WriteReturned =>
        IF format = "webp"
        THEN \/ Frame("webp", Masked(input), Masked(buffer))
             \/ /\ Take(Drop(buffer, 12), 8) = VP8X \o << 10, 0, 0, 0 >>
                /\ Frame("webp", Masked(input),
                         Masked(Take(buffer, 12) \o Drop(buffer, 30)))
        ELSE Frame(format, input, buffer)

\* The XMP segment of a JPEG with scan data after it has been replaced by a
\* segment of another length.
C6_Witness ==
    /\ format = "jpeg"
    /\ pc = "written"
    /\ WriteReturned
    /\ xmpXml = << 233 >>
    /\ XmpRecords("jpeg", input) # << >>
    /\ RecordEnd("jpeg", input, XmpRecords("jpeg", input)[1]) < Len(input)
    /\ Len(buffer) # Len(input)

\* C6 for the inputs in which the first VP8X chunk, if there is one, holds
\* its flags byte.
C6_WithFlagsByte ==
    (RiffChunks(input, 12, VP8X) = << >> \/ Vp8xFlagsOffset(input) >= 0)
        => C6_OtherBytesUntouched

----------------------------------------------------------------------------
(* Length fields, flags and check values of what was written               *)

\* A file without bit 2 of each of its bytes.
WithoutBit2(bytes) ==
    [i \in 1..Len(bytes) |->
        IF (bytes[i] \div 4) % 2 = 1 THEN bytes[i] - 4 ELSE bytes[i]]

\* The bytes from offset n of the buffer on are the last bytes of the input
\* (for WebP, where a write sets bit 2 of one byte outside the chunk, but for
\* bit 2 of those bytes).
RestOfInput(n) ==
    LET rest == Len(buffer) - n
        before == IF format = "webp" THEN WithoutBit2(input) ELSE input
        after == IF format = "webp" THEN WithoutBit2(buffer) ELSE buffer
    IN /\ rest >= 0
       /\ rest <= Len(input)
       /\ Drop(after, n) = Drop(before, Len(input) - rest)

\* C7: after a writeXmp that returned, the length field of the written XMP
\* segment or chunk is the true length of its span: for JPEG the big-endian
\* APP1 length is namespace bytes + XMP bytes + 2; for PNG the big-endian
\* iTXt length is the number of data bytes between the type and the CRC; for
\* WebP the little-endian 'XMP ' size is the number of XMP bytes, followed by
\* one zero pad byte exactly when that size is odd.  In each format the span
\* so measured ends where the untouched rest of the input begins.
C7_DeclaredLengthIsTrueLength ==
    WriteReturned =>
        LET xmp == TextEncode(xmpXml)
            n == Len(xmp)
        IN \E s \in 0..Len(buffer) :
            IF format = "jpeg"
            THEN /\ At(buffer, s) = 255 /\ At(buffer, s + 1) = 225
                 /\ Take(Drop(buffer, s + 4), Len(XMP_NS_BYTES) + n) = XMP_NS_BYTES \o xmp
                 /\ At(buffer, s + 2) * 256 + At(buffer, s + 3) = Len(XMP_NS_BYTES) + n + 2
                 /\ RestOfInput(s + 4 + Len(XMP_NS_BYTES) + n)
            ELSE IF format = "png"
            THEN /\ Take(Drop(buffer, s + 4), 4) = ITXT
                 /\ Take(Drop(buffer, s + 8), 22 + n) = XmpITXtData(xmpXml)
                 /\ Take(Drop(buffer, s), 4) = << 0, 0, 0, 22 + n >>
                 /\ RestOfInput(s + 8 + 22 + n + 4)
            ELSE /\ WithoutBit2(Take(Drop(buffer, s), 4)) = WithoutBit2(XMP_FOURCC)
                 /\ Take(Drop(buffer, s + 8), n) = xmp
                 /\ Take(Drop(buffer, s + 4), 4) = << n, 0, 0, 0 >>
                 /\ (n % 2 = 1) => At(buffer, s + 8 + n) = 0
                 /\ RestOfInput(s + 8 + n + (n % 2))

\* A packet of odd length has replaced the 'XMP ' chunk of a WebP file that
\* has another chunk after it.
C7_Witness ==
    /\ format = "webp"
    /\ pc = "written"
    /\ WriteReturned
    /\ xmpXml = << 97 >>
    /\ XmpRecords("webp", input) # << >>
    /\ RecordEnd("webp", input, XmpRecords("webp", input)[1]) < Len(input)
    /\ Len(XmpRecords("webp", buffer)) = 1

\* C8: after webp.writeXmp returns, in each of its three cases, the
\* little-endian RIFF size at bytes 4-7 of the returned buffer is the
\* buffer's length minus 8, whatever the input's size field was.
C8_RiffSizeIsLengthMinus8 ==
    (format = "webp" /\ WriteReturned) =>
        /\ At(buffer, 4) + 256 * At(buffer, 5) = Len(buffer) - 8
        /\ At(buffer, 6) = 0
        /\ At(buffer, 7) = 0

\* A WebP file whose size field was stale (zero) and that had no VP8X and no
\* 'XMP ' chunk has been written: a VP8X chunk was synthesized.
C8_Witness ==
    /\ format = "webp"
    /\ pc = "written"
    /\ WriteReturned
    /\ Take(Drop(input, 4), 4) = << 0, 0, 0, 0 >>
    /\ Len(input) > 12
    /\ XmpRecords("webp", input) = << >>
    /\ RiffChunks(input, 12, VP8X) = << >>
    /\ RiffChunks(buffer, 12, VP8X) = << 12 >>

\* C9: after webp.writeXmp returns, if the returned buffer has a VP8X chunk
\* (one the input had, or a synthesized one), the flags byte of that chunk
\* has bit 2 (0x04) set whatever it was before, and no other bit of the
\* flags byte has changed.
C9_Vp8xFlagBit2 ==
    (format = "webp" /\ WriteReturned /\ Vp8xFlagsOffset(buffer) >= 0) =>
        LET after == At(buffer, Vp8xFlagsOffset(buffer))
            before == IF Vp8xFlagsOffset(input) < 0 THEN 0
                      ELSE At(input, Vp8xFlagsOffset(input))
        IN /\ (after \div 4) % 2 = 1
           /\ after \div 8 = before \div 8
           /\ after % 4 = before % 4

\* A second write to a file whose VP8X flags byte was 0x10 at first: the
\* byte was 0x14 before this write and is 0x14 after it.
C9_Witness ==
    /\ format = "webp"
    /\ pc = "written"
    /\ WriteReturned
    /\ writes = 2
    /\ RiffChunks(original, 12, VP8X) # << >>
    /\ At(original, RiffChunks(original, 12, VP8X)[1] + 8) = 16
    /\ At(input, RiffChunks(input, 12, VP8X)[1] + 8) = 20
    /\ At(buffer, RiffChunks(buffer, 12, VP8X)[1] + 8) = 20

\* C10: the CRC field (the last 4 bytes, big-endian) of the iTXt chunk that
\* png.writeXmp emits is the standard CRC-32 (reflected polynomial
\* 0xEDB88320, initial value 0xFFFFFFFF, final XOR 0xFFFFFFFF) of the 4 type
\* bytes 'iTXt' followed by the chunk's data bytes, for every string written.
C10_PngChunkCrc ==
    (format = "png" /\ WriteReturned) =>
        LET typeAndData == ITXT \o XmpITXtData(xmpXml)
        IN \E s \in 0..Len(buffer) :
            /\ Take(Drop(buffer, s + 4), Len(typeAndData)) = typeAndData
            /\ Take(Drop(buffer, s + 4 + Len(typeAndData)), 4) = XmpITXtCrc[xmpXml]
            /\ RestOfInput(s + 8 + Len(typeAndData))

\* A packet with a two-byte character has been written before the IDAT
\* chunk of a PNG that had no XMP chunk.
C10_Witness ==
    /\ format = "png"
    /\ pc = "written"
    /\ WriteReturned
    /\ xmpXml = << 233 >>
    /\ XmpRecords("png", input) = << >>
    /\ Len(XmpRecords("png", buffer)) = 1
    /\ \E s \in 0..Len(input) : Take(Drop(input, s + 4), 4) = IDAT

----------------------------------------------------------------------------
(* The size ceiling of a JPEG APP1 segment                                 *)

\* How far below and above the ceiling the lengths of the long packets go.
MaxSlack == 3

\* Packets of one repeated character ("a": one byte, e-acute: two bytes, the
\* euro sign: three bytes) whose encoded lengths lie around the largest
\* length a segment can hold.
LongStrings ==
    LET longest == 65535 - 2 - Len(XMP_NS_BYTES)
    IN UNION {{[i \in 1..n |-> cp] :
                n \in ((longest \div w) - MaxSlack)..((longest \div w) + MaxSlack)} :
              << cp, w >> \in {<< 97, 1 >>, << 233, 2 >>, << 8364, 3 >>}}

\* JPEG files without and with an XMP segment to replace.
JpegSizeInputs ==
    { SOI,
      SOI \o JpegXmpSegment,
      SOI \o << 255, 224, 0, 4, 74, 70 >> \o JpegXmpSegment
          \o << 255, 218, 0, 2, 1, 2, 255, 217 >>,
      SOI \o << 255, 218, 0, 2, 1, 2, 255, 217 >>,
      SOI \o JpegTruncatedXmpSegment }

SizeInit ==
    /\ format = "jpeg"
    /\ buffer \in JpegSizeInputs
    /\ original = buffer
    /\ input = buffer
    /\ xmpXml = << >>
    /\ threw = FALSE
    /\ returned = "none"
    /\ inputAfter = buffer
    /\ readResult = Null
    /\ readThrew = FALSE
    /\ readHighest = -1
    /\ writes = 0
    /\ NoDescription
    /\ NoScan
    /\ NoApp
    /\ pc = "loaded"

\* One jpeg.writeXmp call with a long packet on the file as loaded.
JpegWriteLongXmp ==
    /\ format = "jpeg"
    /\ pc = "loaded"
    /\ \E xml \in LongStrings : Written(xml, jpeg_writeXmp(buffer, xml))

SizeNext == JpegWriteLongXmp

SizeSpec == SizeInit /\ [][SizeNext]_vars

RECURSIVE Utf8LengthBetween(_, _, _)
\* The number of bytes of the UTF-8 form of the characters lo..hi of a
\* string: 1 below U+0080, 2 below U+0800, 3 below U+10000, 4 from there on.
Utf8LengthBetween(str, lo, hi) ==
    IF lo > hi THEN 0
    ELSE IF lo = hi
        THEN (IF str[lo] < 128 THEN 1 ELSE IF str[lo] < 2048 THEN 2
              ELSE IF str[lo] < 65536 THEN 3 ELSE 4)
    ELSE Utf8LengthBetween(str, lo, (lo + hi) \div 2)
            + Utf8LengthBetween(str, ((lo + hi) \div 2) + 1, hi)

Utf8Length(str) == Utf8LengthBetween(SubSeq(str, 1, Len(str)), 1, Len(str))

\* A call with a payload of n bytes behaved as the ceiling demands: it threw
\* and left the file alone when n + 29 > 65533, and otherwise wrote a
\* segment that declares and holds all n bytes.
WithinCeiling(n) ==
    /\ threw <=> (n + 29 > 65533)
    /\ (n + 29 > 65533) => (pc = "failed" /\ buffer = input)
    /\ (n + 29 <= 65533) =>
         \E s \in {2} \cup {XmpRecords("jpeg", input)[i] :
                             i \in DOMAIN XmpRecords("jpeg", input)} :
             /\ At(buffer, s) = 255 /\ At(buffer, s + 1) = 225
             /\ At(buffer, s + 2) * 256 + At(buffer, s + 3) = n + 31
             /\ Take(Drop(buffer, s + 4), 29) = XMP_NS_BYTES
             /\ Len(buffer) >= s + 33 + n
             /\ Take(Drop(buffer, s + 33), n) = TextEncode(xmpXml)

\* C11: jpeg.writeXmp fails exactly when the UTF-8 length of the XML plus the
\* 29 bytes of the namespace URI and its NUL exceeds 65533; when the sum is
\* 65533 or less it returns, and the segment it wrote declares and holds the
\* whole payload.
C11_JpegSizeCeiling ==
    (format = "jpeg" /\ pc \in {"written", "failed"}) =>
        WithinCeiling(Utf8Length(xmpXml))

\* A packet of two-byte characters whose payload is the first such length
\* beyond what a segment can hold (29 + 65506 bytes) was refused.
C11_Witness ==
    /\ format = "jpeg"
    /\ pc = "failed"
    /\ threw
    /\ xmpXml # << >>
    /\ xmpXml[1] = 233
    /\ Utf8Length(xmpXml) = 65506

\* A packet that fills a segment to the last byte (29 + 65504 bytes) has
\* replaced the XMP segment of a JPEG.
C11_AtTheCeiling ==
    /\ format = "jpeg"
    /\ pc = "written"
    /\ Utf8Length(xmpXml) = 65504
    /\ XmpRecords("jpeg", input) # << >>

-----------------------------------------------------------------------------
(* Buffers that do not carry the format's signature                        *)

\* C12: writeXmp of every format, applied to a buffer that does not begin
\* with the format's signature, fails and returns no buffer: the file stays
\* as it was.
C12_WriteRejectsForeignBytes ==
    (writes > 0 /\ ~HasMagic(format, input)) => (threw /\ buffer = input)

\* png.writeXmp and webp.writeXmp do refuse such a buffer.
C12_PngWebpRejectForeignBytes ==
    (format \in {"png", "webp"} /\ writes > 0 /\ ~HasMagic(format, input)) =>
        (threw /\ buffer = input)

\* Every leading part of the files of a set, the empty buffer included.
Prefixes(files) == UNION {{SubSeq(b, 1, n) : n \in 0..Len(b)} : b \in files}

\* A file whose byte at index idx is changed, so that a signature which
\* covers the index is no longer there.
Defaced(b, idx) == [i \in 1..Len(b) |-> IF i = idx + 1 THEN (b[i] + 1) % 256 ELSE b[i]]

\* Headers that declare the longest and the shortest lengths there are.
ScanExtremes(f) ==
    IF f = "jpeg"
        THEN {SOI \o << 255, 224, 255, 255, 1 >>,
              SOI \o << 255, 224, 0, 0, 255, 225 >> \o JpegXmpSegment,
              SOI \o << 255, 225, 255, 255 >> \o XMP_NS_BYTES \o << 98 >>}
    ELSE IF f = "png"
        THEN {PNG_SIGNATURE \o << 255, 255, 255, 255 >> \o ITXT \o XMP_KEYWORD
                  \o << 0, 0, 0, 0, 0, 98, 1 >>,
              PNG_SIGNATURE \o << 127, 255, 255, 255, 73, 72, 68, 82, 1 >>}
    ELSE {WebpFile(XMP_FOURCC \o << 255, 255, 255, 255, 98 >>, FALSE),
          WebpFile(VP8 \o << 255, 255, 255, 127, 1 >>, FALSE)}

\* The buffers readXmp is tried on: the files of the format and the extreme
\* headers, each cut at every length, and each with its signature spoilt.
ScanInputs(f) ==
    LET files == (Inputs(f) \cup ScanExtremes(f)) \ {NotAnImage}
    IN Prefixes(files) \cup {NotAnImage}
           \cup {Defaced(b, 0) : b \in files}
           \cup {Defaced(b, 1) : b \in files}
           \cup (IF f = "webp" THEN {Defaced(b, 11) : b \in files} ELSE {})

ScanInit ==
    /\ format \in Formats
    /\ buffer \in ScanInputs(format)
    /\ original = buffer
    /\ input = buffer
    /\ xmpXml = << >>
    /\ threw = FALSE
    /\ returned = "none"
    /\ inputAfter = buffer
    /\ readResult = Null
    /\ readThrew = FALSE
    /\ readHighest = -1
    /\ writes = 0
    /\ NoDescription
    /\ NoScan
    /\ NoApp
    /\ pc = "loaded"

ScanNext ==
    \/ JpegReadXmp
    \/ PngReadXmp
    \/ WebpReadXmp

ScanSpec == ScanInit /\ [][ScanNext]_vars

\* C13: readXmp of every format, applied to a buffer that does not begin
\* with the format's signature (shorter than the signature, or empty,
\* included), returns null and does not throw.
C13_ReadOfForeignBytesIsNull ==
    (pc = "read" /\ ~HasMagic(format, buffer)) =>
        (readResult = Null /\ ~readThrew)

\* readXmp was applied to a JPEG whose first byte was changed and which
\* carries an XMP segment.
C13_Witness ==
    /\ format = "jpeg"
    /\ pc = "read"
    /\ buffer = Defaced(SOI \o JpegXmpSegment, 0)
    /\ readResult = Null

\* readXmp was applied to the empty buffer.
C13_EmptyBuffer == pc = "read" /\ buffer = << >> /\ format = "webp"

-----------------------------------------------------------------------------
(* Scanning a file that carries the signature but is otherwise arbitrary   *)

\* The offsets of a buffer at which the bytes of an XMP record of format f
\* stand: the APP1 marker with a length of 31 or more and the namespace, the
\* iTXt type with the keyword and its NUL, or the FourCC 'XMP '.
Matching(f, bytes) ==
    {s \in 0..(Len(bytes) - 1) :
        IF f = "jpeg"
            THEN /\ Slice(bytes, s, s + 2) = << 255, 225 >>
                 /\ s + 4 <= Len(bytes)
                 /\ getUint16(bytes, s + 2) >= Len(XMP_NS_BYTES) + 2
                 /\ Slice(bytes, s + 4, s + 4 + Len(XMP_NS_BYTES)) = XMP_NS_BYTES
        ELSE IF f = "png"
            THEN /\ Slice(bytes, s + 4, s + 8) = ITXT
                 /\ Slice(bytes, s + 8, s + 9 + Len(XMP_KEYWORD)) = XMP_KEYWORD \o << 0 >>
        ELSE Slice(bytes, s, s + 4) = XMP_FOURCC}

\* The first index from lo on at which the array holds zero, Len(arr) when
\* there is none.
NextZero(arr, lo) ==
    IF \E i \in lo..(Len(arr) - 1) : At(arr, i) = 0
    THEN CHOOSE i \in lo..(Len(arr) - 1) :
            At(arr, i) = 0 /\ \A j \in lo..(i - 1) : At(arr, j) # 0
    ELSE Len(arr)

\* The text of the record at offset s, as far as the buffer holds it: in a
\* JPEG what follows the namespace up to the declared end, in a WebP the
\* declared data, in a PNG what follows the keyword, the two flag bytes and
\* the two NUL-terminated strings (null when these are not all there).
TextOfRecord(f, bytes, s) ==
    IF f = "jpeg"
        THEN Text(TextDecode(Slice(bytes, s + 4 + Len(XMP_NS_BYTES),
                                   s + 2 + getUint16(bytes, s + 2))))
    ELSE IF f = "webp"
        THEN Text(TextDecode(Slice(bytes, s + 8,
                                   s + 8 + ToNumber(getUint32LE(bytes, s + 4)))))
    ELSE LET chunkData == Slice(bytes, s + 8, s + 8 + ToNumber(getUint32(bytes, s)))
             language == Len(XMP_KEYWORD) + 3
             translated == NextZero(chunkData, language) + 1
             text == NextZero(chunkData, translated) + 1
         IN IF text > Len(chunkData) THEN Null
            ELSE Text(TextDecode(SliceFrom(chunkData, text)))

\* C14: readXmp of every format, applied to a buffer that begins with the
\* signature and goes on with arbitrary bytes (a last segment or chunk that
\* declares more than the buffer holds included), reads no byte at an index
\* of buffer.length or more, does not throw, and returns null or the text of
\* a matching XMP segment or chunk.
C14_ReadStaysInsideBuffer ==
    (pc = "read" /\ HasMagic(format, buffer)) =>
        /\ ~readThrew
        /\ readHighest < Len(buffer)
        /\ readResult \in
             {Null} \cup {TextOfRecord(format, buffer, s) : s \in Matching(format, buffer)}

\* readXmp returned the part of an XMP segment that a JPEG cut inside the
\* segment still holds, having read the buffer up to the namespace's end.
C14_Witness ==
    /\ format = "jpeg"
    /\ pc = "read"
    /\ buffer = SOI \o JpegTruncatedXmpSegment
    /\ readResult = Text(<< 98 >>)
    /\ readHighest = Len(buffer) - 2

\* readXmp was applied to a JPEG that ends inside a length field.
C14_CutInsideHeader ==
    /\ format = "jpeg"
    /\ pc = "read"
    /\ buffer = SOI \o << 255, 224, 0 >>
    /\ readResult = Null

-----------------------------------------------------------------------------
(* The caller's buffer                                                     *)

\* C15: writeXmp of every format leaves the buffer handed to it byte for
\* byte as it was, whether it returns or throws, and the buffer it returns
\* is another one than the caller's (the RIFF size and the VP8X flag are
\* stored into the new buffer only).
C15_InputBufferUntouched ==
    writes > 0 =>
        /\ inputAfter = input
        /\ ~threw => returned = "new"

\* webp.writeXmp has returned a file whose RIFF size and whose VP8X flags
\* byte differ from those of its input.
C15_Witness ==
    /\ format = "webp"
    /\ pc = "written"
    /\ returned = "new"
    /\ Len(input) > 20
    /\ Slice(input, 12, 16) = VP8X
    /\ At(buffer, 20) = At(input, 20) + 4
    /\ Slice(buffer, 4, 8) # Slice(input, 4, 8)
    /\ inputAfter = input

\* A writeXmp call threw and its input stayed as it was.
C15_AfterThrow == writes > 0 /\ threw /\ inputAfter = input /\ format = "png"

-----------------------------------------------------------------------------
(* Descriptions: buildXmpXml and extractDescription                        *)

\* The longest description handed to buildXmpXml.
MaxDescription == 2

\* 'a', '<', '&', '"', the apostrophe, '>', space, line feed, carriage
\* return and the control character U+0001.
DescriptionChars == {97, 60, 38, 34, 39, 62, 32, 10, 13, 1}

Descriptions == SeqsUpTo(DescriptionChars, MaxDescription)

Li(lang, str) == << Open("rdf:li", lang) >> \o Chars(str) \o << Close("rdf:li") >>

Alt(lis) == << Open("rdf:Alt", "") >> \o lis \o << Close("rdf:Alt") >>

DcDescription(content) ==
    << Open("dc:description", "") >> \o content \o << Close("dc:description") >>

RdfDescription(content) ==
    << Open("rdf:Description", "") >> \o content \o << Close("rdf:Description") >>

\* A packet: xpacket begin, x:xmpmeta with rdf:RDF and its content, xpacket
\* end.
XmpMeta(content) ==
    << XPacket("begin") >> \o Indent(0)
        \o << Open("x:xmpmeta", ""), Open("rdf:RDF", "") >> \o content
        \o << Close("rdf:RDF"), Close("x:xmpmeta") >>
        \o Indent(0) \o << XPacket("end") >>

\* Well-formed packets: a minimal one; entries "en" and "x-default"; entries
\* "en" and "fr"; a description of plain text; an empty description; two
\* descriptions; a title only; no rdf:Description; an element named
\* parsererror beside the description.
WellFormedPackets ==
    { createMinimalXmp(<< 111 >>),
      XmpMeta(RdfDescription(DcDescription(
          Alt(Li("en", << 101 >>) \o Li("x-default", << 120 >>))))),
      XmpMeta(RdfDescription(DcDescription(
          Alt(Li("en", << 101 >>) \o Li("fr", << 102 >>))))),
      XmpMeta(RdfDescription(DcDescription(Chars(<< 32, 112, 32 >>)))),
      XmpMeta(RdfDescription(DcDescription(<< >>))),
      XmpMeta(RdfDescription(DcDescription(Alt(Li("x-default", << 120 >>)))
                             \o DcDescription(Alt(Li("x-default", << 121 >>))))),
      XmpMeta(RdfDescription(<< Open("dc:title", ""), Ch(116), Close("dc:title") >>)),
      XmpMeta(<< >>),
      XmpMeta(<< Open("parsererror", ""), Close("parsererror") >>
              \o RdfDescription(DcDescription(Alt(Li("x-default", << 120 >>))))) }

\* Texts that are not well-formed: an element left open, a '<' in character
\* data, character data without an element, a control character.
MalformedPackets ==
    { << Open("x:xmpmeta", ""), Ch(97) >>,
      XmpMeta(RdfDescription(DcDescription(Chars(<< 97, 60, 98 >>)))),
      Chars(<< 97 >>),
      XmpMeta(RdfDescription(DcDescription(Alt(Li("x-default", << 1 >>))))) }

ExistingPackets == WellFormedPackets \cup MalformedPackets \cup {<< >>}

NoFile ==
    /\ format = "jpeg"
    /\ buffer = SOI
    /\ original = buffer
    /\ input = buffer
    /\ xmpXml = << >>
    /\ threw = FALSE
    /\ returned = "none"
    /\ inputAfter = buffer
    /\ readResult = Null
    /\ readThrew = FALSE
    /\ readHighest = -1
    /\ writes = 0
    /\ NoScan
    /\ NoApp

XmpInit ==
    /\ NoFile
    /\ existingXml \in {Null} \cup {Text(p) : p \in ExistingPackets}
    /\ description = << >>
    /\ builtXml = << >>
    /\ extracted = << >>
    /\ pc = "packet"

\* const description = xmpXml ? extractDescription(xmpXml) : ""
ExtractExisting ==
    /\ pc = "packet"
    /\ extracted' = IF ~existingXml.isNull /\ existingXml.text # << >>
                    THEN extractDescription(existingXml.text)
                    ELSE << >>
    /\ pc' = "shown"
    /\ UNCHANGED << codecVars, scanVars, appVars, existingXml, description, builtXml >>

\* const newXml = buildXmpXml(currentXml, newDescription)
BuildXmpXml ==
    /\ pc = "packet"
    /\ \E d \in Descriptions :
           /\ description' = d
           /\ builtXml' = buildXmpXml(existingXml, d)
    /\ pc' = "built"
    /\ UNCHANGED << codecVars, scanVars, appVars, existingXml, extracted >>

\* extractDescription applied to the packet that was built.
ExtractBuilt ==
    /\ pc = "built"
    /\ extracted' = extractDescription(builtXml)
    /\ pc' = "extracted"
    /\ UNCHANGED << codecVars, scanVars, appVars, existingXml, description, builtXml >>

XmpNext ==
    \/ ExtractExisting
    \/ BuildXmpXml
    \/ ExtractBuilt

XmpSpec == XmpInit /\ [][XmpNext]_vars

\* Whether a text is a well-formed XML document.
IsWellFormed(items) == parseFromString(items) # ParserErrorDocument

\* C16: extractDescription(buildXmpXml(existing, d)) = d for every
\* description d without NUL, for existing = null and for every well-formed
\* prior packet.
C16_ExtractReturnsWhatWasBuilt ==
    (pc = "extracted" /\ (existingXml.isNull \/ IsWellFormed(existingXml.text))) =>
        extracted = description

\* The characters an XML document holds as they are, or as the references
\* escapeXml and XMLSerializer write: every Char but the carriage return.
Kept(d) == \A i \in 1..Len(d) : IsChar(d[i]) /\ d[i] # 13

\* The same for the descriptions without carriage returns and without
\* characters that XML does not admit, and for every prior text.
C16_ForKeptCharacters ==
    (pc = "extracted" /\ Kept(description)) => extracted = description

\* A description with markup characters came back from a prior packet with
\* entries "en" and "x-default".
C16_ForKeptCharacters_Witness ==
    /\ pc = "extracted"
    /\ description = << 60, 38 >>
    /\ extracted = description
    /\ existingXml = Text(XmpMeta(RdfDescription(DcDescription(
           Alt(Li("en", << 101 >>) \o Li("x-default", << 120 >>))))))

\* What C17 says extractDescription returns for a text: the empty string
\* when the text is not well-formed or has no dc:description; else the text
\* of the first dc:description's rdf:li with xml:lang "x-default", else of
\* its first rdf:li, else the text content of the element itself.
DescriptionOf(items) ==
    LET document == DocumentNode(parseFromString(items))
        descriptions == getElementsByTagNameNS(document, "dc:description")
        first == NodeAt(document, descriptions[1])
        lis == getElementsByTagNameNS(first, "rdf:li")
        defaults == SelectSeq(lis, LAMBDA p : NodeAt(first, p).lang = "x-default")
    IN IF ~IsWellFormed(items) THEN << >>
       ELSE IF descriptions = << >> THEN << >>
       ELSE IF defaults # << >> THEN textContent(NodeAt(first, defaults[1]))
       ELSE IF lis # << >> THEN textContent(NodeAt(first, lis[1]))
       ELSE textContent(first)

\* The text the last extractDescription call was applied to.
Extracted ==
    IF pc = "extracted" THEN builtXml ELSE existingXml.text

\* C17: extractDescription never fails; it returns the empty string for a
\* text that is not well-formed and for one without dc:description, else the
\* text of the first dc:description's x-default rdf:li, else of its first
\* rdf:li, else the element's own text content.
C17_ExtractDescriptionValue ==
    ((pc = "shown" /\ ~existingXml.isNull) \/ pc = "extracted") =>
        extracted = DescriptionOf(Extracted)

\* The same, but with the text content of a dc:description without rdf:li
\* trimmed, and for the texts without an element named parsererror.
C17_TrimmedAndWithoutParserErrorElement ==
    ((pc = "shown" /\ ~existingXml.isNull) \/ pc = "extracted") =>
        LET items == Extracted
            named == {i \in 1..Len(items) : items[i].name = "parsererror"}
            plain == getElementsByTagNameNS(DocumentNode(parseFromString(items)),
                                            "rdf:li") = << >>
        IN named = {} =>
             extracted = IF plain THEN trim(DescriptionOf(items))
                         ELSE DescriptionOf(items)

\* extractDescription returned the empty string for a well-formed packet
\* whose description has the x-default entry "x", and which has an element
\* named parsererror beside it.
C17_ParserErrorElement ==
    /\ pc = "shown"
    /\ existingXml = Text(XmpMeta(<< Open("parsererror", ""), Close("parsererror") >>
           \o RdfDescription(DcDescription(Alt(Li("x-default", << 120 >>))))))
    /\ IsWellFormed(existingXml.text)
    /\ DescriptionOf(existingXml.text) = << 120 >>
    /\ extracted = << >>

\* extractDescription returned "p" for a description whose text content is
\* " p ".
C17_TrimmedText ==
    /\ pc = "shown"
    /\ existingXml = Text(XmpMeta(RdfDescription(DcDescription(Chars(<< 32, 112, 32 >>)))))
    /\ DescriptionOf(existingXml.text) = << 32, 112, 32 >>
    /\ extracted = << 112 >>

-----------------------------------------------------------------------------
(* Where a new record goes                                                 *)

RECURSIVE PngChunks(_, _, _)
\* The offsets of the chunks of the given type in a PNG, from offset at up
\* to and including the IEND chunk.
PngChunks(bytes, at, type) ==
    IF at + 8 > Len(bytes) THEN << >>
    ELSE (IF Slice(bytes, at + 4, at + 8) = type THEN << at >> ELSE << >>)
         \o (IF Slice(bytes, at + 4, at + 8) = IEND THEN << >>
             ELSE PngChunks(bytes, at + 12 + ToNumber(getUint32(bytes, at)), type))

\* png.writeXmp has just returned for a PNG without an XMP chunk.
PngInserted ==
    /\ format = "png"
    /\ pc = "written"
    /\ WriteReturned
    /\ XmpRecords("png", input) = << >>

\* The input with the new chunk put in at offset at.
PngWith(at) == Take(input, at) \o XmpRecord("png", xmpXml) \o Drop(input, at)

\* C18: png.writeXmp on a PNG without an XMP iTXt chunk puts the new chunk
\* right before the first IDAT chunk; when there is no IDAT chunk it puts it
\* before the IEND chunk, so that IEND stays the last chunk.
C18_PngInsertPosition ==
    PngInserted =>
        LET idats == PngChunks(input, 8, IDAT)
            iends == PngChunks(input, 8, IEND)
        IN /\ idats # << >> => buffer = PngWith(idats[1])
           /\ (idats = << >> /\ iends # << >>) => buffer = PngWith(iends[1])

\* The first half alone: with an IDAT chunk, the new chunk stands right
\* before the first one.
C18_BeforeFirstIdat ==
    (PngInserted /\ PngChunks(input, 8, IDAT) # << >>) =>
        buffer = PngWith(PngChunks(input, 8, IDAT)[1])

\* What the code does without an IDAT chunk: the new chunk stands right
\* after the IEND chunk.
C18_AfterIend ==
    (PngInserted /\ PngChunks(input, 8, IDAT) = << >>
                 /\ PngChunks(input, 8, IEND) # << >>) =>
        buffer = PngWith(PngChunks(input, 8, IEND)[1] + 12)

-----------------------------------------------------------------------------
(* Standalone markers of a JPEG                                            *)

\* C19: scanning a JPEG, readXmp and the search of the write path take
\* every marker 0xD0..0xD9 as standalone, without a length field, and step
\* over it by exactly two bytes: readXmp returns the first XMP segment that
\* the walk with these steps comes to (null when it comes to none), and
\* writeXmp replaces that segment, or inserts after SOI when there is none.
C19_StandaloneMarkers ==
    LET segments == JpegXmpSegments(input, 2)
        old == Take(Drop(input, segments[1]), RecordEnd("jpeg", input, segments[1]) - segments[1])
    IN /\ (format = "jpeg" /\ pc = "read" /\ writes = 0 /\ HasMagic("jpeg", buffer)) =>
            readResult = IF JpegXmpSegments(buffer, 2) = << >> THEN Null
                         ELSE TextOfRecord("jpeg", buffer, JpegXmpSegments(buffer, 2)[1])
       /\ (format = "jpeg" /\ pc = "written" /\ WriteReturned) =>
            Len(buffer) = Len(input) + Len(XmpRecord("jpeg", xmpXml))
                            - (IF segments = << >> THEN 0 ELSE Len(old))

\* The same for the files whose only standalone markers are 0xD0 and 0xD9.
C19_OnlyRst0AndEoi ==
    (\A i \in 1..(Len(original) - 1) :
        original[i] = 255 => original[i + 1] \notin 209..216) =>
    C19_StandaloneMarkers

-----------------------------------------------------------------------------
(* The VP8X chunk that webp.writeXmp makes for a simple file               *)

\* webp.writeXmp has just returned for a file without 'XMP ' and without
\* VP8X chunk whose first chunk is of the given type.
Vp8xSynthesized(type) ==
    /\ format = "webp"
    /\ pc = "written"
    /\ WriteReturned
    /\ RiffChunks(input, 12, XMP_FOURCC) = << >>
    /\ RiffChunks(input, 12, VP8X) = << >>
    /\ Slice(input, 12, 16) = type

\* The three bytes of a 24-bit value, least significant first.
LittleEndian24(n) == << n % 256, (n \div 256) % 256, (n \div 65536) % 256 >>

\* The result begins, after the RIFF header, with a VP8X chunk of ten data
\* bytes whose bytes 4-6 and 7-9 are width - 1 and height - 1.
HasCanvas(width, height) ==
    /\ Slice(buffer, 12, 20) = VP8X \o << 10, 0, 0, 0 >>
    /\ Slice(buffer, 24, 27) = LittleEndian24(width - 1)
    /\ Slice(buffer, 27, 30) = LittleEndian24(height - 1)

\* Width and height as a lossless chunk declares them: the low 14 bits and
\* the next 14 bits of the little-endian 32-bit field at offset 21, plus one.
Vp8lWidth == ((At(input, 21) + 256 * At(input, 22)) % 16384) + 1

Vp8lHeight ==
    ((At(input, 22) \div 64) + 4 * At(input, 23) + 1024 * (At(input, 24) % 16)) + 1

\* C20: the VP8X chunk that webp.writeXmp makes for a simple file holds
\* width - 1 and height - 1 of the first chunk in its 24-bit fields: for
\* VP8L from the 32-bit field after the signature byte, for 'VP8 ' from the
\* 16-bit fields at offsets 26 and 28, masked to 14 bits; for every input
\* that holds these bytes, one that ends right after them included.
C20_SynthesizedCanvas ==
    /\ (Vp8xSynthesized(VP8L) /\ Len(input) >= 25) => HasCanvas(Vp8lWidth, Vp8lHeight)
    /\ (Vp8xSynthesized(VP8) /\ Len(input) >= 30) =>
            HasCanvas(getUint16LE(input, 26) % 16384, getUint16LE(input, 28) % 16384)

\* The same for the inputs that hold at least one byte after the fields.
C20_WithAByteAfterTheFields ==
    /\ (Vp8xSynthesized(VP8L) /\ Len(input) > 25) => HasCanvas(Vp8lWidth, Vp8lHeight)
    /\ (Vp8xSynthesized(VP8) /\ Len(input) > 30) =>
            HasCanvas(getUint16LE(input, 26) % 16384, getUint16LE(input, 28) % 16384)

\* A VP8X chunk for a canvas of 100 x 50 was made from a lossless file.
C20_LosslessCanvas ==
    /\ Vp8xSynthesized(VP8L)
    /\ Vp8lWidth = 100
    /\ Vp8lHeight = 50
    /\ HasCanvas(100, 50)

\* From a lossless file of 100 x 50 that ends right after the field, a VP8X
\* chunk with both fields zero was made.
C20_MinimalLossless ==
    /\ Vp8xSynthesized(VP8L)
    /\ input = WebpMinimalVP8L
    /\ Vp8lWidth = 100
    /\ Vp8lHeight = 50
    /\ Slice(buffer, 12, 20) = VP8X \o << 10, 0, 0, 0 >>
    /\ Slice(buffer, 24, 30) = << 0, 0, 0, 0, 0, 0 >>

-----------------------------------------------------------------------------
(* Where webp.writeXmp puts the 'XMP ' chunk                               *)

\* The chunk webp.writeXmp builds for the string of the last call.
NewXmpChunk == buildRiffChunk(XMP_FOURCC, TextEncode(xmpXml))

\* a is b but for the RIFF size (bytes 4-7) and bit 2 of at most one byte,
\* the VP8X flag that a write sets.
SameButSizeAndFlag(a, b) ==
    /\ Len(a) = Len(b)
    /\ \A i \in 1..Len(a) : i \in 5..8 \/ a[i] = b[i] \/ a[i] = b[i] + 4
    /\ Cardinality({i \in 1..Len(a) : i \notin 5..8 /\ a[i] # b[i]}) <= 1

\* The result is the input with the chunk at offset s, in its byte range
\* (header, data and pad byte, as much of it as the file holds), replaced by
\* the new chunk.
XmpReplacedAt(s) ==
    SameButSizeAndFlag(buffer,
        Take(input, s) \o NewXmpChunk \o Drop(input, RecordEnd("webp", input, s)))

\* The result is the input followed by the new chunk.
XmpAppended == SameButSizeAndFlag(buffer, input \o NewXmpChunk)

\* The result is the RIFF header, a VP8X chunk of ten data bytes, the chunks
\* of the input and the new chunk.
Vp8xAndXmpInserted ==
    /\ Len(buffer) = Len(input) + 18 + Len(NewXmpChunk)
    /\ Slice(buffer, 0, 4) = Slice(input, 0, 4)
    /\ Slice(buffer, 8, 12) = Slice(input, 8, 12)
    /\ Slice(buffer, 12, 20) = VP8X \o << 10, 0, 0, 0 >>
    /\ Slice(buffer, 30, 18 + Len(input)) = Drop(input, 12)
    /\ Drop(buffer, 18 + Len(input)) = NewXmpChunk

\* The three cases for the chunks xmps and vp8xs found in the input.
WebpPlacement(xmps, vp8xs) ==
    IF xmps # << >> THEN \E i \in DOMAIN xmps : XmpReplacedAt(xmps[i])
    ELSE IF vp8xs # << >> THEN XmpAppended
    ELSE Vp8xAndXmpInserted

\* C21: webp.writeXmp places the new 'XMP ' chunk by three cases: an existing
\* 'XMP ' chunk is replaced in its exact byte range; with no 'XMP ' chunk but
\* a VP8X chunk the new chunk is appended at the end of the file; with
\* neither, a VP8X chunk of 10 data bytes comes right after the 12-byte RIFF
\* header, the original chunks follow unchanged and the XMP chunk is last.
C21_WebpPlacement ==
    (format = "webp" /\ WriteReturned) =>
        WebpPlacement(RiffChunks(input, 12, XMP_FOURCC), RiffChunks(input, 12, VP8X))

\* The chunks with the given FourCC that the scan of webp.writeXmp visits:
\* those whose offset is below length - 8, so not a chunk without data whose
\* header ends the file.
ScannedChunks(bytes, id) ==
    SelectSeq(RiffChunks(bytes, 12, id), LAMBDA s : s < Len(bytes) - 8)

\* The three cases hold for the chunks the scan visits, the 'XMP ' chunk
\* replaced being the last one of them.
C21_ForScannedChunks ==
    (format = "webp" /\ WriteReturned) =>
        LET xmps == ScannedChunks(input, XMP_FOURCC)
        IN WebpPlacement(IF xmps = << >> THEN << >> ELSE << xmps[Len(xmps)] >>,
                         ScannedChunks(input, VP8X))

\* A file that ends with an 'XMP ' chunk without data, as a write of the
\* empty string left it, was written again: the chunk was kept and a second
\* one appended.
C21_EmptyChunkKept ==
    /\ format = "webp"
    /\ pc = "written"
    /\ WriteReturned
    /\ writes = 2
    /\ RiffChunks(input, 12, XMP_FOURCC) = << Len(input) - 8 >>
    /\ Len(RiffChunks(buffer, 12, XMP_FOURCC)) = 2
    /\ XmpAppended

-----------------------------------------------------------------------------
(* Where jpeg.writeXmp puts the APP1 segment                               *)

\* An APP1 segment with the XMP namespace stands at offset s.
XmpSegmentAt(bytes, s) ==
    /\ Slice(bytes, s, s + 2) = << 255, 225 >>
    /\ Slice(bytes, s + 4, s + 4 + Len(XMP_NS_BYTES)) = XMP_NS_BYTES

\* C22: jpeg.writeXmp replaces the exact byte range (marker, length field and
\* payload) of the existing XMP APP1 segment when one is found; when none is
\* found the new segment is inserted at offset 2, right after the SOI
\* marker, and is the first segment of the output.
C22_JpegPlacement ==
    (format = "jpeg" /\ WriteReturned) =>
        LET existing == findXmpSegmentRange(input)
        IN IF existing.found
           THEN /\ XmpSegmentAt(input, existing.start)
                /\ existing.end = RecordEnd("jpeg", input, existing.start)
                /\ buffer = Take(input, existing.start) \o XmpRecord("jpeg", xmpXml)
                                \o Drop(input, existing.end)
           ELSE /\ buffer = SOI \o XmpRecord("jpeg", xmpXml) \o Drop(input, 2)
                /\ XmpRecords("jpeg", buffer)[1] = 2

\* An XMP segment that stands after another segment was replaced by a
\* segment one byte longer.
C22_Witness ==
    /\ format = "jpeg"
    /\ pc = "written"
    /\ WriteReturned
    /\ xmpXml = << 233 >>
    /\ findXmpSegmentRange(input).found
    /\ findXmpSegmentRange(input).start > 2
    /\ Len(buffer) = Len(input) + 1

\* A file with segments and no XMP segment was written: the new segment
\* stands between the SOI marker and the file's first segment.
C22_Inserted ==
    /\ format = "jpeg"
    /\ pc = "written"
    /\ WriteReturned
    /\ ~findXmpSegmentRange(input).found
    /\ Len(input) > 2
    /\ Slice(buffer, 0, 4) = << 255, 216, 255, 225 >>
    /\ Drop(buffer, Len(buffer) - (Len(input) - 2)) = Drop(input, 2)

-----------------------------------------------------------------------------
(* The scan loops followed one iteration at a time                         *)

\* The scan loops of each format's readXmp and writeXmp.
Loops(f) ==
    IF f = "jpeg" THEN {"jpeg.readXmp", "findXmpSegmentRange"}
    ELSE IF f = "png" THEN {"png.readXmp", "png.writeXmp"}
    ELSE {"webp.readXmp", "webp.writeXmp", "setVP8XFlag"}

\* No buffer has been handed to readXmp or writeXmp yet.
LoopInit ==
    /\ format \in Formats
    /\ buffer = << >>
    /\ original = buffer
    /\ input = buffer
    /\ xmpXml = << >>
    /\ threw = FALSE
    /\ returned = "none"
    /\ inputAfter = buffer
    /\ readResult = Null
    /\ readThrew = FALSE
    /\ readHighest = -1
    /\ writes = 0
    /\ NoDescription
    /\ NoScan
    /\ NoApp
    /\ pc = "called"

\* The buffers the loops are followed on: the files of the format's menu
\* and the extreme headers that carry the signature.
LoopInputs(f) == {b \in Inputs(f) \cup ScanExtremes(f) : HasMagic(f, b)}

\* A loop is entered, after the signature test, with offset just past the
\* signature.
EnterLoop ==
    /\ pc = "called"
    /\ buffer' \in LoopInputs(format)
    /\ loop' \in Loops(format)
    /\ offset' = IF format = "jpeg" THEN 2 ELSE IF format = "png" THEN 8 ELSE 12
    /\ pc' = "scanning"
    /\ UNCHANGED << format, original, input, xmpXml, threw, returned, inputAfter,
                    readResult, readThrew, readHighest, writes >>
    /\ UNCHANGED << xmpVars, appVars >>

\* One evaluation of the condition and the body of the loop, with effect r.
LoopStep(name, r) ==
    /\ pc = "scanning"
    /\ loop = name
    /\ offset' = r.offset
    /\ pc' = IF r.left THEN "scanned" ELSE "scanning"
    /\ UNCHANGED << codecVars, xmpVars, appVars, loop >>

JpegReadXmpStep == LoopStep("jpeg.readXmp", jpeg_readXmpStep(buffer, offset))

FindXmpSegmentRangeStep ==
    LoopStep("findXmpSegmentRange", findXmpSegmentRangeStep(buffer, offset))

PngReadXmpStep == LoopStep("png.readXmp", png_readXmpStep(buffer, offset))

PngWriteXmpStep == LoopStep("png.writeXmp", png_writeXmpStep(buffer, offset))

WebpReadXmpStep == LoopStep("webp.readXmp", webp_readXmpStep(buffer, offset))

WebpWriteXmpStep == LoopStep("webp.writeXmp", webp_writeXmpStep(buffer, offset))

SetVP8XFlagStep == LoopStep("setVP8XFlag", setVP8XFlagStep(buffer, offset))

\* One evaluation of the condition and the body of the loop that was
\* entered.
Iteration ==
    \/ JpegReadXmpStep
    \/ FindXmpSegmentRangeStep
    \/ PngReadXmpStep
    \/ PngWriteXmpStep
    \/ WebpReadXmpStep
    \/ WebpWriteXmpStep
    \/ SetVP8XFlagStep

LoopNext ==
    \/ EnterLoop
    \/ Iteration

LoopSpec == LoopInit /\ [][LoopNext]_vars

\* The loops are synchronous JavaScript: a loop that was entered goes on
\* evaluating its condition and body.
LoopFairSpec == LoopSpec /\ WF_vars(Iteration)

\* C23: every scan loop of the codec (JPEG, PNG and WebP, in readXmp, in
\* writeXmp and in the VP8X flag update) terminates on every input buffer:
\* each iteration after which the loop goes on has strictly increased
\* offset, no iteration decreases it, and a loop that is entered is left; for
\* fill bytes, zero-length segments and chunks that declare the largest
\* 16-bit or 32-bit length as well.
C23_ScanLoopsTerminate ==
    /\ [][/\ pc = "scanning" => offset' >= offset
          /\ (pc = "scanning" /\ pc' = "scanning") => offset' > offset]_vars
    /\ (pc = "scanning") ~> (pc = "scanned")

\* The loop of jpeg.readXmp was left after a segment that declares length 0
\* (less than the two bytes of its own length field): offset went from 2 to
\* 4, where no marker stands.
C23_Witness ==
    /\ pc = "scanned"
    /\ loop = "jpeg.readXmp"
    /\ Slice(buffer, 2, 6) = << 255, 224, 0, 0 >>
    /\ offset = 4

\* The null test of the stepwise png.readXmp loop is that of
\* parseITXtForXmp, at every offset of every buffer.
ParsesAsXmpIsNotNull ==
    pc = "scanning" =>
        \A at \in 0..Len(buffer) : \A n \in 0..(Len(buffer) + 1) :
            parsesAsXmp(buffer, at, n) = ~parseITXtForXmp(buffer, at, n).isNull

\* The loop of png.writeXmp was left after a chunk that declares the length
\* 0xFFFFFFFF, with offset past the end of the buffer.
C23_LargestLength ==
    /\ pc = "scanned"
    /\ loop = "png.writeXmp"
    /\ Slice(buffer, 8, 12) = << 255, 255, 255, 255 >>
    /\ offset > Len(buffer)

\* The loop of findXmpSegmentRange was left after it had stepped over a
\* fill byte.
C23_FillByte ==
    /\ pc = "scanned"
    /\ loop = "findXmpSegmentRange"
    /\ Slice(buffer, 2, 4) = << 255, 255 >>
    /\ offset > 3

-----------------------------------------------------------------------------
(* The packet buildXmpXml makes when it has no packet to modify            *)

\* A description with '&', '<', '>', '"' and the apostrophe written as the
\* predefined references, character by character.
Escaped(d) ==
    Concat([i \in 1..Len(d) |->
        IF \E e \in Entities : e.c = d[i]
        THEN (CHOOSE e \in Entities : e.c = d[i]).ref
        ELSE << d[i] >>])

\* The synthesized packet: xpacket begin with the fixed id, x:xmpmeta,
\* rdf:RDF, rdf:Description, dc:description, rdf:Alt and one rdf:li with
\* xml:lang "x-default" that holds the escaped description, each on its own
\* line, then 2048 spaces and xpacket end.
MinimalPacket(d) ==
    << XPacket("begin"), Ch(10),
       Open("x:xmpmeta", ""), Ch(10), Ch(32), Ch(32),
       Open("rdf:RDF", ""), Ch(10), Ch(32), Ch(32), Ch(32), Ch(32),
       Open("rdf:Description", ""), Ch(10) >> \o [i \in 1..6 |-> Ch(32)]
    \o << Open("dc:description", ""), Ch(10) >> \o [i \in 1..8 |-> Ch(32)]
    \o << Open("rdf:Alt", ""), Ch(10) >> \o [i \in 1..10 |-> Ch(32)]
    \o << Open("rdf:li", "x-default") >> \o Chars(Escaped(d)) \o << Close("rdf:li"), Ch(10) >>
    \o [i \in 1..8 |-> Ch(32)] \o << Close("rdf:Alt"), Ch(10) >>
    \o [i \in 1..6 |-> Ch(32)] \o << Close("dc:description"), Ch(10) >>
    \o [i \in 1..4 |-> Ch(32)] \o << Close("rdf:Description"), Ch(10), Ch(32), Ch(32),
       Close("rdf:RDF"), Ch(10),
       Close("x:xmpmeta"), Ch(10),
       Spaces(2048), Ch(10),
       XPacket("end") >>

\* Whether a text has a start tag of the given name.
HasElement(items, name) ==
    \E i \in 1..Len(items) : items[i].kind = "open" /\ items[i].name = name

\* The existing text is the empty string, or is not well-formed, or is
\* well-formed without dc:description and without rdf:Description element.
NothingToModify ==
    /\ ~existingXml.isNull
    /\ \/ existingXml.text = << >>
       \/ ~IsWellFormed(existingXml.text)
       \/ /\ ~HasElement(existingXml.text, "dc:description")
          /\ ~HasElement(existingXml.text, "rdf:Description")

\* C24: buildXmpXml(existing, d) returns exactly the packet that
\* buildXmpXml(none, d) returns, the synthesized minimal packet, whenever
\* existing is the empty string, is not well-formed XML, or is well-formed
\* with neither a dc:description nor an rdf:Description element.
C24_FallsBackToMinimalPacket ==
    (pc = "built" /\ (existingXml.isNull \/ NothingToModify)) =>
        /\ builtXml = buildXmpXml(Null, description)
        /\ builtXml = MinimalPacket(description)

\* From a well-formed packet without rdf:Description, the minimal packet
\* was made for a description with '<' and '&'.
C24_Witness ==
    /\ pc = "built"
    /\ NothingToModify
    /\ IsWellFormed(existingXml.text)
    /\ existingXml.text = XmpMeta(<< >>)
    /\ description = << 60, 38 >>
    /\ builtXml = MinimalPacket(<< 60, 38 >>)

\* The same from a text that is not well-formed.
C24_FromMalformedText ==
    /\ pc = "built"
    /\ existingXml.text # << >>
    /\ ~IsWellFormed(existingXml.text)
    /\ description = << 34 >>
    /\ builtXml = MinimalPacket(<< 34 >>)

-----------------------------------------------------------------------------
(* What buildXmpXml changes in a packet that has a description             *)

\* The paths of the rdf:li elements of the first dc:description of a
\* document, from the document node.
FirstDescriptionLis(document) ==
    LET descriptions == getElementsByTagNameNS(document, "dc:description")
        lis == getElementsByTagNameNS(NodeAt(document, descriptions[1]), "rdf:li")
    IN IF descriptions = << >> THEN << >>
       ELSE [i \in 1..Len(lis) |-> descriptions[1] \o lis[i]]

\* The rdf:li to update: the first one tagged "x-default", else the first.
TargetLi(document) ==
    LET lis == FirstDescriptionLis(document)
        defaults == SelectSeq(lis, LAMBDA p : NodeAt(document, p).lang = "x-default")
    IN IF defaults # << >> THEN defaults[1] ELSE lis[1]

\* The existing packet is well-formed and its first dc:description has one
\* or more rdf:li elements; buildXmpXml has been applied to it with a
\* description that XML holds as it is (see C16 for the others).
DescriptionUpdated ==
    /\ pc = "built"
    /\ ~existingXml.isNull
    /\ IsWellFormed(existingXml.text)
    /\ FirstDescriptionLis(DocumentNode(parseFromString(existingXml.text))) # << >>
    /\ Kept(description)

\* The built packet is the existing document with the text of the target
\* rdf:li set to the description, and with every other node as it was:
\* every element, in the same place, with the same attribute and text.
OnlyTargetLiChanged ==
    LET before == DocumentNode(parseFromString(existingXml.text))
        after == DocumentNode(parseFromString(builtXml))
        target == TargetLi(before)
    IN /\ IsWellFormed(builtXml)
       /\ after = ReplaceAt(before, target,
                    [NodeAt(before, target) EXCEPT !.children =
                        IF description = << >> THEN << >>
                        ELSE << TextNode(description) >>])
       /\ textContent(NodeAt(after, target)) = description

\* C25: when the existing packet is well-formed and its first
\* dc:description has one or more rdf:li, buildXmpXml sets the text of
\* exactly one rdf:li (the first tagged "x-default", else the first) to the
\* new description and leaves every other rdf:li, every other
\* dc:description and all unrelated elements and attributes unchanged.
C25_OnlyTargetLiChanged == DescriptionUpdated => OnlyTargetLiChanged

\* The same for the packets that have no element named parsererror.
C25_WithoutParserErrorElement ==
    (DescriptionUpdated /\ ~HasElement(existingXml.text, "parsererror"))
        => OnlyTargetLiChanged

\* A well-formed packet with an element named parsererror beside its
\* description was rebuilt as the minimal packet: the element is gone.
C25_PacketDiscarded ==
    /\ DescriptionUpdated
    /\ HasElement(existingXml.text, "parsererror")
    /\ description = << 97 >>
    /\ builtXml = MinimalPacket(description)
    /\ ~HasElement(builtXml, "parsererror")

\* In a packet with the entries "en" and "x-default" the second entry was
\* set and the first was kept.
C25_SecondEntrySet ==
    /\ DescriptionUpdated
    /\ OnlyTargetLiChanged
    /\ description = << 60, 97 >>
    /\ existingXml.text = XmpMeta(RdfDescription(DcDescription(
           Alt(Li("en", << 101 >>) \o Li("x-default", << 120 >>)))))
    /\ builtXml = << XPacket("begin"), Open("x:xmpmeta", ""), Open("rdf:RDF", "") >>
           \o RdfDescription(DcDescription(
                 Alt(Li("en", << 101 >>) \o Li("x-default", << 38, 108, 116, 59, 97 >>))))
           \o << Close("rdf:RDF"), Close("x:xmpmeta"), XPacket("end") >>

(***************************************************************************)
(* The application shell: App, ImageList and ImageItem                     *)
(*                                                                         *)
(* A file on disk is identified with the XMP packet it carries, and a      *)
(* packet with the description it carries: readXmp gives the packet,       *)
(* extractDescription its description, and writeXmp(buffer,                *)
(* buildXmpXml(currentXml, d)) a file that carries d.  An object URL is a  *)
(* number, and so is the id crypto.randomUUID() gives an image.  A state   *)
(* update is applied when setSource is called; whether the updater has     *)
(* also run by the next statement of the handler, which reads a local      *)
(* the updater assigns, is left open (updaterRan).                         *)
(***************************************************************************)

\* The descriptions a user types; the second makes a packet that is too
\* large for a JPEG APP1 segment.
Typed == {"d", "long"}

NoError == "null"

ImageNotFound == "Image not found"

TooLarge == "XMP data is too large for a single JPEG APP1 segment"

\* The message of a rejected getFile, createWritable, write or close.
FileError == "file error"

\* The folders of the tree scanDirectory builds, by id, and their
\* imageHandles.
Folders == {"x", "y"}

imageHandles(folderId) == IF folderId = "x" THEN << "a.jpg" >> ELSE << "b.png" >>

\* The handles showOpenFilePicker resolves to.
Picks == {<< "a.jpg" >>, << "a.jpg", "b.png" >>}

detectFormat(name) ==
    IF name = "a.jpg" THEN "jpeg" ELSE IF name = "b.png" THEN "png" ELSE "null"

\* The images loadImagesFromHandles returns for the handles, when n URLs
\* were created before and the files are as in files.
loadImagesFromHandles(handles, n, files) ==
    LET withFormat == SelectSeq(handles, LAMBDA h : detectFormat(h) # "null")
    IN [k \in 1 .. Len(withFormat) |->
           [id |-> n + k,
            handle |-> withFormat[k],
            description |-> IF files[withFormat[k]] = NoXmp THEN ""
                            ELSE files[withFormat[k]],
            thumbnailUrl |-> n + k,
            existingXmpXml |-> files[withFormat[k]],
            saving |-> FALSE,
            saved |-> FALSE,
            error |-> NoError]]

\* The URLs revokeImageUrls revokes.
revokeImageUrls(images) == {images[k].thumbnailUrl : k \in DOMAIN images}

\* updateImages(updater)
updateImages(src, updater(_)) ==
    IF src.kind \in {"files", "folder"}
    THEN [src EXCEPT !.images = updater(src.images)]
    ELSE src

\* imgs.map((img) => img.id === id ? change(img) : img)
mapImage(imgs, id, change(_)) ==
    [k \in DOMAIN imgs |-> IF imgs[k].id = id THEN change(imgs[k]) ELSE imgs[k]]

\* The three updates of handleSave.
saveStarted(img) == [img EXCEPT !.saving = TRUE, !.error = NoError, !.saved = FALSE]

saveSucceeded(img, newDescription, newXml) ==
    [img EXCEPT !.description = newDescription, !.existingXmpXml = newXml,
                !.saving = FALSE, !.saved = TRUE, !.error = NoError]

saveFailed_StillSaving(img, message) == [img EXCEPT !.error = message]

saveFailed(img, message) == [img EXCEPT !.saving = FALSE, !.error = message]

\* The ids of the images of the list, and the image with an id.
Ids(images) == {images[k].id : k \in DOMAIN images}

ImageOf(images, id) == images[CHOOSE k \in DOMAIN images : images[k].id = id]

\* Whether App renders an ImageList that renders its items.
itemsShown(src, flag) ==
    \/ src.kind = "files"
    \/ src.kind = "folder" /\ src.selectedFolderId # NoFolder /\ ~flag

Mounted(src, flag) == IF itemsShown(src, flag) THEN Ids(src.images) ELSE {}

\* ImageItem's useState(image.description) and setLocalValue: an item that
\* is mounted takes the description of its image, one that stays mounted
\* keeps its value.
localValues(src, flag, before, values) ==
    [u \in 1 .. MaxUrls |->
        IF u \notin Mounted(src, flag) THEN Unmounted
        ELSE IF u \in before THEN values[u]
        ELSE ImageOf(src.images, u).description]

\* The render that follows a change of state.
Render ==
    localValue' = localValues(source', folderImagesLoading',
                              Mounted(source, folderImagesLoading), localValue)

\* isDirty: lastSaved is set to image.description by each render that finds
\* them different.
isDirty(images, values, id) == values[id] # ImageOf(images, id).description

\* The URLs that the calls in flight are still to create.
PendingUrls ==
    (IF opening.kind = "files" THEN Len(opening.handles) ELSE 0)
    + Len(loads)

\* The codec state is not part of the application's steps.
CodecIdle == UNCHANGED << codecVars, xmpVars, scanVars, pc >>

AppInit ==
    /\ NoFile
    /\ NoDescription
    /\ pc = "app"

\* handleOpenFiles, from the click on a button that loading does not
\* disable to the await of loadImagesFromHandles.
OpenFiles ==
    /\ pc = "app"
    /\ ~loading
    /\ \E handles \in Picks :
           /\ created + PendingUrls + Len(handles) <= MaxUrls
           /\ opening' = [kind |-> "files", handles |-> handles]
    /\ loading' = TRUE
    /\ UNCHANGED << source, folderImagesLoading, localValue, loads, saves,
                    disk, created, revoked, timers >>
    /\ CodecIdle

\* handleOpenFiles, from the images to its end.
OpenFilesLoaded ==
    /\ opening.kind = "files"
    /\ LET newImages == loadImagesFromHandles(opening.handles, created, disk)
       IN /\ created' = created + Len(newImages)
          /\ source' = IF source.kind = "files"
                       THEN [source EXCEPT !.images = source.images \o newImages]
                       ELSE [kind |-> "files", selectedFolderId |-> NoFolder,
                             images |-> newImages]
          /\ revoked' = IF source.kind = "folder"
                        THEN revoked \cup revokeImageUrls(source.images)
                        ELSE revoked
    /\ loading' = FALSE
    /\ opening' = NotOpening
    /\ UNCHANGED << folderImagesLoading, loads, saves, disk, timers >>
    /\ Render
    /\ CodecIdle

\* handleOpenFiles when loadImagesFromHandles rejects at a handle, after
\* the URLs of the handles before it were created.
OpenFilesFailed ==
    /\ opening.kind = "files"
    /\ \E k \in 0 .. Len(opening.handles) - 1 : created' = created + k
    /\ loading' = FALSE
    /\ opening' = NotOpening
    /\ UNCHANGED << source, folderImagesLoading, localValue, loads, saves,
                    disk, revoked, timers >>
    /\ CodecIdle

\* handleOpenFolder, from the click to the await of scanDirectory.
OpenFolder ==
    /\ pc = "app"
    /\ ~loading
    /\ loading' = TRUE
    /\ revoked' = IF source.kind \in {"files", "folder"}
                  THEN revoked \cup revokeImageUrls(source.images)
                  ELSE revoked
    /\ source' = NoSource
    /\ opening' = [kind |-> "folder", handles |-> << >>]
    /\ UNCHANGED << folderImagesLoading, loads, saves, disk, created, timers >>
    /\ Render
    /\ CodecIdle

\* handleOpenFolder, from the tree to its end.
FolderScanned ==
    /\ opening.kind = "folder"
    /\ source' = [kind |-> "folder", selectedFolderId |-> NoFolder,
                  images |-> << >>]
    /\ loading' = FALSE
    /\ opening' = NotOpening
    /\ UNCHANGED << folderImagesLoading, loads, saves, disk, created, revoked,
                    timers >>
    /\ Render
    /\ CodecIdle

\* handleOpenFolder when scanDirectory rejects.
FolderScanFailed ==
    /\ opening.kind = "folder"
    /\ loading' = FALSE
    /\ opening' = NotOpening
    /\ UNCHANGED << source, folderImagesLoading, localValue, loads, saves,
                    disk, created, revoked, timers >>
    /\ CodecIdle

\* handleSelectTreeFolder, from the click on a folder of the tree to the
\* await of loadImagesFromHandles, or to the return when folderNode is
\* still null.
SelectTreeFolder ==
    /\ source.kind = "folder"
    /\ \E folderId \in Folders, updaterRan \in BOOLEAN :
           /\ revoked' = revoked \cup revokeImageUrls(source.images)
           /\ source' = [source EXCEPT !.selectedFolderId = folderId,
                                       !.images = << >>]
           /\ IF updaterRan
              THEN /\ Len(loads) < MaxLoads
                   /\ created + PendingUrls + Len(imageHandles(folderId)) <= MaxUrls
                   /\ folderImagesLoading' = TRUE
                   /\ loads' = Append(loads, folderId)
              ELSE UNCHANGED << folderImagesLoading, loads >>
    /\ UNCHANGED << loading, opening, saves, disk, created, timers >>
    /\ Render
    /\ CodecIdle

\* The sequence without its element i.
Without(seq, i) == SubSeq(seq, 1, i - 1) \o SubSeq(seq, i + 1, Len(seq))

\* The updater handleSelectTreeFolder hands to setSource with its images.
withFolderImages_OfAnyFolder(src, folderId, newImages) ==
    IF src.kind # "folder" THEN src ELSE [src EXCEPT !.images = newImages]

withFolderImages(src, folderId, newImages) ==
    IF src.kind # "folder" \/ src.selectedFolderId # folderId
    THEN src
    ELSE [src EXCEPT !.images = newImages]

\* The call loads[i] of handleSelectTreeFolder, from the images to its end.
FolderImagesLoadedOf(i) ==
    /\ created' = created + Len(imageHandles(loads[i]))
    /\ source' = withFolderImages(source, loads[i],
           loadImagesFromHandles(imageHandles(loads[i]), created, disk))
    /\ loads' = Without(loads, i)
    /\ folderImagesLoading' = FALSE
    /\ UNCHANGED << loading, opening, saves, disk, revoked, timers >>
    /\ Render
    /\ CodecIdle

FolderImagesLoaded == \E i \in DOMAIN loads : FolderImagesLoadedOf(i)

\* handleSelectTreeFolder when loadImagesFromHandles rejects.
FolderImagesFailed ==
    /\ \E i \in DOMAIN loads :
           /\ \E k \in 0 .. Len(imageHandles(loads[i])) - 1 : created' = created + k
           /\ loads' = Without(loads, i)
    /\ folderImagesLoading' = FALSE
    /\ source' = source
    /\ UNCHANGED << loading, opening, saves, disk, revoked, timers >>
    /\ Render
    /\ CodecIdle

\* onChange of the textarea of a mounted item, which saving disables.
Change ==
    /\ \E id \in Mounted(source, folderImagesLoading), value \in Typed :
           /\ ~ImageOf(source.images, id).saving
           /\ value # localValue[id]
           /\ localValue' = [localValue EXCEPT ![id] = value]
    /\ UNCHANGED << source, loading, folderImagesLoading, opening, loads, saves,
                    disk, created, revoked, timers >>
    /\ CodecIdle

\* The handleSave call s ends in its catch clause with the message.
Fails(s, message) ==
    /\ source' = updateImages(source,
           LAMBDA imgs : mapImage(imgs, s.id, LAMBDA img : saveFailed(img, message)))
    /\ saves' = saves \ {s}

\* The handleSave call that handleBlur of a mounted item makes when the
\* item is dirty.
saveOf(images, values, id) ==
    [id |-> id, handle |-> ImageOf(images, id).handle,
     newDescription |-> values[id], at |-> "find", newXml |-> NoXmp,
     opened |-> FALSE,
     was |-> [description |-> ImageOf(images, id).description,
              existingXmpXml |-> ImageOf(images, id).existingXmpXml]]

\* handleBlur and handleSave, to the await of getFile when imageFile was
\* found and to the end of handleSave when it is still undefined.
BlurOf(id, updaterRan) ==
    LET s == saveOf(source.images, localValue, id)
        started == updateImages(source,
                       LAMBDA imgs : mapImage(imgs, id, saveStarted))
    IN /\ ~ImageOf(source.images, id).saving
       /\ isDirty(source.images, localValue, id)
       /\ IF updaterRan
          THEN /\ Cardinality(saves) < MaxSaves
               /\ source' = started
               /\ saves' = saves \cup {[s EXCEPT !.at = "getFile"]}
          ELSE /\ source' = updateImages(started,
                       LAMBDA imgs : mapImage(imgs, id,
                           LAMBDA img : saveFailed(img, ImageNotFound)))
               /\ saves' = saves
       /\ UNCHANGED << loading, folderImagesLoading, opening, loads, disk,
                       created, revoked, timers >>
       /\ Render
       /\ CodecIdle

Blur ==
    \E id \in Mounted(source, folderImagesLoading), updaterRan \in BOOLEAN :
        BlurOf(id, updaterRan)

\* Whether mod.writeXmp(buffer, newXml) throws.
writeXmpThrows(handle, newXml) == detectFormat(handle) = "jpeg" /\ newXml = "long"

\* handleSave, from getFile to the await of createWritable.
SaveGotFile ==
    /\ \E s \in saves, resolved \in BOOLEAN :
           /\ s.at = "getFile"
           /\ IF ~resolved THEN Fails(s, FileError)
              ELSE IF writeXmpThrows(s.handle, s.newDescription)
              THEN Fails(s, TooLarge)
              ELSE /\ saves' = (saves \ {s}) \cup
                          {[s EXCEPT !.at = "createWritable",
                                     !.newXml = s.newDescription]}
                   /\ UNCHANGED source
    /\ UNCHANGED << loading, folderImagesLoading, opening, loads, disk, created,
                    revoked, timers >>
    /\ Render
    /\ CodecIdle

\* handleSave, from createWritable to the await of close.
SaveOpened ==
    /\ \E s \in saves, resolved \in BOOLEAN :
           /\ s.at = "createWritable"
           /\ IF ~resolved THEN Fails(s, FileError)
              ELSE /\ saves' = (saves \ {s}) \cup
                          {[s EXCEPT !.at = "close", !.opened = TRUE]}
                   /\ UNCHANGED source
    /\ UNCHANGED << loading, folderImagesLoading, opening, loads, disk, created,
                    revoked, timers >>
    /\ Render
    /\ CodecIdle

\* The handleSave call s ends after close: the file carries the new packet.
Succeeds(s) ==
    /\ disk' = [disk EXCEPT ![s.handle] = s.newXml]
    /\ source' = updateImages(source,
           LAMBDA imgs : mapImage(imgs, s.id,
               LAMBDA img : saveSucceeded(img, s.newDescription, s.newXml)))
    /\ saves' = saves \ {s}
    /\ timers' = timers \cup {s.id}

\* handleSave, from write and close to its end.
SaveClosed ==
    /\ \E s \in saves, resolved \in BOOLEAN :
           /\ s.at = "close"
           /\ IF ~resolved
              THEN /\ Fails(s, FileError)
                   /\ UNCHANGED << disk, timers >>
              ELSE Succeeds(s)
    /\ UNCHANGED << loading, folderImagesLoading, opening, loads, created,
                    revoked >>
    /\ Render
    /\ CodecIdle

\* The callback of setTimeout.
SavedTimeout ==
    /\ \E id \in timers :
           /\ source' = updateImages(source,
                  LAMBDA imgs : mapImage(imgs, id,
                      LAMBDA img : [img EXCEPT !.saved = FALSE]))
           /\ timers' = timers \ {id}
    /\ UNCHANGED << loading, folderImagesLoading, opening, loads, saves, disk,
                    created, revoked >>
    /\ Render
    /\ CodecIdle

\* handleRemove, from the button of a mounted item.
Remove ==
    /\ \E id \in Mounted(source, folderImagesLoading) :
           /\ revoked' = revoked \cup {ImageOf(source.images, id).thumbnailUrl}
           /\ source' = updateImages(source,
                  LAMBDA imgs : SelectSeq(imgs, LAMBDA img : img.id # id))
    /\ UNCHANGED << loading, folderImagesLoading, opening, loads, saves, disk,
                    created, timers >>
    /\ Render
    /\ CodecIdle

AppNext ==
    \/ OpenFiles
    \/ OpenFilesLoaded
    \/ OpenFilesFailed
    \/ OpenFolder
    \/ FolderScanned
    \/ FolderScanFailed
    \/ SelectTreeFolder
    \/ FolderImagesLoaded
    \/ FolderImagesFailed
    \/ Change
    \/ Blur
    \/ SaveGotFile
    \/ SaveOpened
    \/ SaveClosed
    \/ SavedTimeout
    \/ Remove

AppSpec == AppInit /\ [][AppNext]_vars

(***************************************************************************)
(* C26: writes are serialized per file                                     *)
(***************************************************************************)

C26_OneSavePerImage ==
    /\ \A s \in saves, t \in saves : s.id = t.id => s = t
    /\ \A s \in saves :
           s.id \in Ids(source.images) => ImageOf(source.images, s.id).saving

\* The same file was picked twice and both of its items were blurred: two
\* calls for it are in flight.
C26_PickedTwice ==
    /\ source.kind = "files"
    /\ Len(source.images) = 2
    /\ source.images[1].handle = source.images[2].handle
    /\ \A k \in 1 .. 2 : \E s \in saves : s.id = source.images[k].id

\* A folder was selected again while a save of one of its images was in
\* flight, and the item of the new image was blurred.
C26_FolderSelectedAgain ==
    /\ source.kind = "folder"
    /\ Cardinality(saves) = 2
    /\ \A s \in saves : s.handle = "a.jpg"
    /\ \E s \in saves : s.id \notin Ids(source.images)

(***************************************************************************)
(* C27: how handleSave ends                                                *)
(***************************************************************************)

\* The messages handleSave ends with when it fails.
Messages == {ImageNotFound, TooLarge, FileError}

\* The image of the call s, if it is in the list, is not saving, has the
\* message as its error, and has the description and the packet it had
\* when s was made.
FailedSave(src, s, message) ==
    s.id \in Ids(src.images) =>
        /\ ~ImageOf(src.images, s.id).saving
        /\ ImageOf(src.images, s.id).error = message
        /\ ImageOf(src.images, s.id).description = s.was.description
        /\ ImageOf(src.images, s.id).existingXmpXml = s.was.existingXmpXml

\* The image of the call s, if it is in the list, is saved, without error,
\* and has the new description.
SucceededSave(src, s) ==
    s.id \in Ids(src.images) =>
        /\ ~ImageOf(src.images, s.id).saving
        /\ ImageOf(src.images, s.id).saved
        /\ ImageOf(src.images, s.id).error = NoError
        /\ ImageOf(src.images, s.id).description = s.newDescription

\* C27: a handleSave call that fails, at the search of the image, at
\* getFile, in the codec or at the file write, ends with its image not
\* saving, with the message as the image's error and with the image's
\* description and packet as they were when the call was made; a call that
\* fails in the codec has opened no writable, and the file is as it was; a
\* call that succeeds ends with its image not saving, saved, without error
\* and with the new description.
C27_HandleSaveEnds ==
    [][/\ \A s \in saves, message \in Messages :
              Fails(s, message) => FailedSave(source', s, message)
       /\ \A id \in Mounted(source, folderImagesLoading) :
              BlurOf(id, FALSE) =>
                  FailedSave(source', saveOf(source.images, localValue, id),
                             ImageNotFound)
       /\ \A s \in saves :
              (/\ s.at = "getFile"
               /\ writeXmpThrows(s.handle, s.newDescription)
               /\ Fails(s, TooLarge)) => (~s.opened /\ disk' = disk)
       /\ \A s \in saves : Succeeds(s) => SucceededSave(source', s)]_vars

\* A save of "long" to a.jpg failed in the codec: the image shows the
\* codec's message and its old description, and the file is as it was.
C27_Witness ==
    /\ source.kind = "files"
    /\ Len(source.images) = 1
    /\ source.images[1].handle = "a.jpg"
    /\ source.images[1].error = TooLarge
    /\ ~source.images[1].saving
    /\ source.images[1].description = ""
    /\ source.images[1].existingXmpXml = NoXmp
    /\ localValue[1] = "long"
    /\ disk["a.jpg"] = NoXmp
    /\ saves = {}

\* A save succeeded: the image shows the new description and the file
\* carries it.
C27_Saved ==
    /\ source.kind = "files"
    /\ Len(source.images) = 1
    /\ source.images[1].saved
    /\ ~source.images[1].saving
    /\ source.images[1].error = NoError
    /\ source.images[1].description = "d"
    /\ disk[source.images[1].handle] = "d"

\* A save failed at close, after the writable was opened, and one failed
\* because imageFile was still undefined after the updater was queued.
C27_FailedAtClose ==
    /\ \E k \in DOMAIN source.images :
           /\ source.images[k].error = FileError
           /\ ~source.images[k].saving
           /\ localValue[source.images[k].id] = "d"
           /\ source.images[k].description = ""

C27_NotFound ==
    /\ \E k \in DOMAIN source.images :
           /\ source.images[k].error = ImageNotFound
           /\ ~source.images[k].saving

(***************************************************************************)
(* C28: the images of the selected folder                                  *)
(***************************************************************************)

\* The files of a folder.
FilesOf(folderId) == {imageHandles(folderId)[k] : k \in DOMAIN imageHandles(folderId)}

\* Every image of the list was loaded from the selected folder.
OfSelectedFolder ==
    source.kind = "folder" =>
        \A k \in DOMAIN source.images :
            /\ source.selectedFolderId # NoFolder
            /\ source.images[k].handle \in FilesOf(source.selectedFolderId)

\* C28: in folder mode the list holds only images of the selected folder,
\* and the images of a load that ends when its folder is not the selected
\* one, or when the application is not in folder mode, leave source as it
\* is.
C28_OnlySelectedFolderShown ==
    /\ []OfSelectedFolder
    /\ [][\A i \in DOMAIN loads :
              (/\ FolderImagesLoadedOf(i)
               /\ (source.kind # "folder" \/ source.selectedFolderId # loads[i]))
                  => source' = source]_vars

\* Folder x was selected, then folder y; the load of x has ended and its
\* image is not shown, the load of y is in flight.
C28_Witness ==
    /\ source.kind = "folder"
    /\ source.selectedFolderId = "y"
    /\ source.images = << >>
    /\ loads = << "y" >>
    /\ created = 1

\* Folder y's image is shown after the images of folder x were dropped.
C28_LaterLoadShown ==
    /\ source.kind = "folder"
    /\ source.selectedFolderId = "y"
    /\ Len(source.images) = 1
    /\ source.images[1].handle = "b.png"
    /\ source.images[1].id = 2
    /\ revoked = {}

\* The load of a folder ended in files mode.
C28_EndedInFilesMode ==
    /\ source.kind = "files"
    /\ Len(source.images) = 1
    /\ source.images[1].id = 1
    /\ created = 2
    /\ loads = << >>
    /\ opening = NotOpening

(***************************************************************************)
(* C29: the loading flag of the folder's images                            *)
(***************************************************************************)

\* A load of the selected folder's images is in flight.
SelectedFolderLoads ==
    /\ source.kind = "folder"
    /\ \E i \in DOMAIN loads : loads[i] = source.selectedFolderId

\* C29: folderImagesLoading is true whenever a load of the images of the
\* selected folder is in flight.
C29_LoadingWhileInFlight == SelectedFolderLoads => folderImagesLoading

\* What the finally clause gives: the flag is false when no load is in
\* flight.
C29_ClearedWhenNoneInFlight == loads = << >> => ~folderImagesLoading

\* Folder x was selected, then folder y; the load of x has ended and the
\* flag is false while the load of y is in flight: ImageList shows "No
\* images in this folder" in place of the spinner.
C29_FlagClearedEarly ==
    /\ source.kind = "folder"
    /\ source.selectedFolderId = "y"
    /\ loads = << "y" >>
    /\ created = 1
    /\ ~folderImagesLoading
    /\ source.images = << >>
    /\ Mounted(source, folderImagesLoading) = {}

(***************************************************************************)
(* C30: the object URLs of the thumbnails                                  *)
(***************************************************************************)

\* A promise that is awaited settles and a timer fires: the calls in
\* flight go on.  The user's clicks and keys are under no obligation.
Settles ==
    \/ OpenFilesLoaded
    \/ OpenFilesFailed
    \/ FolderScanned
    \/ FolderScanFailed
    \/ FolderImagesLoaded
    \/ FolderImagesFailed
    \/ SaveGotFile
    \/ SaveOpened
    \/ SaveClosed
    \/ SavedTimeout

AppFairSpec == AppSpec /\ WF_vars(Settles)

\* The URLs that were created, and those of the images of the list.
CreatedUrls == 1 .. created

ShownUrls == revokeImageUrls(source.images)

\* C30: a URL that was created and is not the URL of an image of the list
\* is revoked at some time, and the URL of an image of the list is not
\* revoked.
C30_UrlsRevoked ==
    /\ \A u \in 1 .. MaxUrls :
           (u \in CreatedUrls /\ u \notin ShownUrls) ~> (u \in revoked)
    /\ [](ShownUrls \cap revoked = {})

\* The second half alone: no URL of an image of the list is revoked, and
\* no URL is revoked that was not created.
C30_ShownNeverRevoked ==
    /\ ShownUrls \cap revoked = {}
    /\ revoked \subseteq CreatedUrls

\* Folder x was selected, then folder y; both loads have ended, the image
\* of y is shown, and the URL of the image of x is neither shown nor
\* revoked, with no call in flight that could revoke it.
C30_StaleUrlKept ==
    /\ source.kind = "folder"
    /\ source.selectedFolderId = "y"
    /\ ShownUrls = {2}
    /\ created = 2
    /\ revoked = {}
    /\ loads = << >>
    /\ saves = {}
    /\ opening = NotOpening

\* Folder x was selected twice; the images of the second load replaced
\* those of the first, whose URL is neither shown nor revoked.
C30_ReplacedUrlKept ==
    /\ source.kind = "folder"
    /\ source.selectedFolderId = "x"
    /\ ShownUrls = {2}
    /\ created = 2
    /\ revoked = {}
    /\ loads = << >>

\* An image was removed by the user and its URL revoked.
C30_RemovedUrlRevoked ==
    /\ source.kind = "files"
    /\ source.images = << >>
    /\ created = 1
    /\ revoked = {1}

====
